---- MODULE Spec2Model ----
(***************************************************************************)
(* A model of genesis_seed: the seed-OS agent service                      *)
(* (services/agent.py), the data-plane payload model (dm/models.py) and    *)
(* the guest capability driver (drivers/guest.py).                         *)
(*                                                                         *)
(* One boot of one node runs exactly one reconciling program: `mode'       *)
(* says which (the agent service or the guest driver).  The control plane  *)
(* and the HTTP transport are the environment: every call answers          *)
(* normally or raises, chosen nondeterministically.                        *)
(***************************************************************************)
EXTENDS Naturals, Sequences, FiniteSets, TLC

VARIABLES
    mode,       \* "agent" | "guest": the program this boot runs
    pc,         \* position inside the running iteration / driver run
    file,       \* CoreAgent.PAYLOAD_PATH: [kind, data]
    marker,     \* FINISH_FLAG_PATH exists
    target,     \* the control plane's current target for this agent
    hostIfaces, \* Interface.from_system(): the live interface list
    dp,         \* dp_payload of the running iteration
    cp,         \* cp_payload of the running iteration
    todo,       \* interfaces still to create in _actualize_machine
    after,      \* continuation of _set_status: "stream" | "raise"
    blockDev,   \* the block device selected by _place_node
    written,    \* chunks written to the block device by this transfer
    log,        \* calls and local effects of the running iteration, in order
    outcome,    \* how the last iteration ended
    raisedIn,   \* the step whose exception ended the last iteration
    file0,      \* history: file when the iteration started
    marker0,    \* history: marker when the iteration started
    prevConv,   \* history: the previous iteration converged and the target
                \* has not changed since
    gmachine,   \* GuestCapDriver._machine
    guest,      \* payload.capabilities["guest_machine"] handed to the driver
    views,      \* the simple views (JSON objects, keys in document order)
                \* handed to Payload.restore_from_simple_view
    sysBlock,   \* the block devices under /sys/block read by get_disks
    xfer,       \* one call of stream_to_file: its source, its destination
                \* and the locals of the call
    mnt,        \* one call of mount_root_partition: the devices handed in,
                \* what is mounted at the mount point, the locals
    resp        \* one HttpResp and what raise_for_status did with it

vars == <<mode, pc, file, marker, target, hostIfaces,
          dp, cp, todo, after, blockDev, written, log, outcome, raisedIn,
          file0, marker0, prevConv, gmachine, guest, views,
          sysBlock, xfer, mnt, resp>>

-----------------------------------------------------------------------------
(* Bounds and program constants *)

\* chunks the image transfer delivers when nothing fails
NumChunks == 2

MINIMAL_BLOCK_DEVICE_SIZE_GB == 5

-----------------------------------------------------------------------------
(* Values *)

NoNode == [kind |-> "none"]
NoMachine == [kind |-> "none"]
NoPayload == [kind |-> "none"]
NoDevice == [kind |-> "none"]
NoGuest == [kind |-> "none"]
NoCall == [kind |-> "none"]
NoImage == "<None>"
NoHash == [empty |-> TRUE]    \* payload_hash = ""

ERR_NO_DEVICE == "No acceptable block device found"
DESCR_FLASHING == "Image flashing in progress"

StartsWith(s, p) == Len(s) >= Len(p) /\ SubSeq(s, 1, Len(p)) = p

IfA == [name |-> "eth0", mac |-> "aa:00", ipv4 |-> "10.0.0.1", mask |-> "255.255.255.0", mtu |-> 1500]
IfB == [name |-> "eth1", mac |-> "bb:00", ipv4 |-> "10.0.0.2", mask |-> "255.255.255.0", mtu |-> 1500]
IfC == [name |-> "eth2", mac |-> "cc:00", ipv4 |-> "10.0.0.3", mask |-> "255.255.255.0", mtu |-> 1500]

Range(s) == {s[i] : i \in DOMAIN s}

\* Machine.from_system()
MachineFromSystem ==
    [cores |-> 1, ram |-> 1, status |-> "IDLE", description |-> "",
     boot |-> "network", image |-> NoImage]


-----------------------------------------------------------------------------
(* dm/models.py: the payload model *)

\* faulty variant: the interfaces enter the hash as a set
CalcHashUnordered(p) ==
    [machine |-> IF p.machine = NoMachine THEN <<>>
                 ELSE <<p.machine.image, p.node>>,
     node |-> IF p.node = NoNode THEN <<>>
              ELSE <<p.node.cores, p.node.ram, p.node.node_type, p.node.image>>,
     interfaces |-> {<<p.interfaces[i].mac, p.interfaces[i].ipv4,
                       p.interfaces[i].mask>> : i \in DOMAIN p.interfaces}]

\* Payload._calculate_payload_hash: the dictionary that is serialised with
\* sorted keys and digested.  sha256 is taken to be injective, so the digest
\* is modelled by the dictionary itself.  Keys that the code leaves out are
\* <<>> here.  str(self.node) renders every field of the node.
CalcHash(p) ==
    [machine |-> IF p.machine = NoMachine THEN <<>>
                 ELSE <<p.machine.image, p.node>>,
     node |-> IF p.node = NoNode THEN <<>>
              ELSE <<p.node.cores, p.node.ram, p.node.node_type, p.node.image>>,
     interfaces |-> [i \in DOMAIN p.interfaces |->
                        <<p.interfaces[i].mac, p.interfaces[i].ipv4,
                          p.interfaces[i].mask>>]]

\* Payload.__hash__
PayloadHash(p) ==
    IF p.payload_hash # NoHash THEN p.payload_hash ELSE CalcHash(p)

\* faulty variant: payloads are compared field by field
PayloadEqStructural(a, b) == a = b

\* Payload.__eq__
PayloadEq(a, b) == PayloadHash(a) = PayloadHash(b)

\* Payload.update_payload_hash
UpdatePayloadHash(p) == [p EXCEPT !.payload_hash = CalcHash(p)]

\* CoreAgent.empty_payload
EmptyPayload(ifaces) ==
    [machine |-> MachineFromSystem, node |-> NoNode, interfaces |-> ifaces,
     payload_hash |-> NoHash, payload_updated_at |-> "1970-01-01 00:01:00"]

\* Payload.dump_to_simple_view: the JSON document written to the file
DumpPayload(p) ==
    [machine |-> p.machine, node |-> p.node, interfaces |-> p.interfaces,
     payload_hash |-> p.payload_hash,
     payload_updated_at |-> p.payload_updated_at]

\* Payload.restore_from_simple_view
RestorePayload(v) ==
    [machine |-> v.machine, node |-> v.node, interfaces |-> v.interfaces,
     payload_hash |-> v.payload_hash,
     payload_updated_at |-> v.payload_updated_at]

AbsentFile == [kind |-> "absent", data |-> NoPayload]
EmptyFile == [kind |-> "empty", data |-> NoPayload]
PartialFile == [kind |-> "partial", data |-> NoPayload]
FullFile(view) == [kind |-> "full", data |-> view]

\* CoreAgent.collect_payload, the file exists: load it, refresh the interfaces
LoadPayload(view, ifaces) ==
    UpdatePayloadHash([RestorePayload(view) EXCEPT !.interfaces = ifaces])


-----------------------------------------------------------------------------
(* common/system.py: block devices *)

\* device names in the order sorted() gives them
DevNames == <<"sda", "sdb", "vda">>
Rank(n) == CHOOSE i \in DOMAIN DevNames : DevNames[i] = n

RECURSIVE SortByName(_)
SortByName(S) ==
    IF S = {} THEN <<>>
    ELSE LET m == CHOOSE d \in S : \A e \in S : Rank(d.name) <= Rank(e.name)
         IN <<m>> \o SortByName(S \ {m})

\* faulty variant: virtual devices are listed too
GetDisksWithVirtual(devices) ==
    SortByName({d \in devices : ~(d.size < MINIMAL_BLOCK_DEVICE_SIZE_GB)})

\* get_disks: the physical devices of at least min_size GB, sorted by name
GetDisks(devices) ==
    SortByName({d \in devices :
                  ~d.virtual /\ ~(d.size < MINIMAL_BLOCK_DEVICE_SIZE_GB)})

Dev(n, gb, v) == [name |-> n, size |-> gb, virtual |-> v]

\* the block-device sets a host may show
DiskPool ==
    { {},
      {Dev("sda", 4, FALSE), Dev("vda", 20, TRUE)},
      {Dev("sda", 4, FALSE), Dev("sdb", 20, FALSE), Dev("vda", 8, FALSE)} }

-----------------------------------------------------------------------------
(* The control plane: the targets it may hold *)

IMG_NEW == "http://repo/new.raw"
IMG_OLD == "http://repo/old.raw"
IMG_BAD == "file:///new.raw"

TMachine(cr, st, d) ==
    [cores |-> cr[1], ram |-> cr[2], status |-> st, description |-> d,
     boot |-> "network", image |-> NoImage]

TNode(img, st, d) ==
    [cores |-> 1, ram |-> 1, status |-> st, description |-> d,
     image |-> img, node_type |-> "HW"]

CoreRamPool == {<<1, 1>>, <<2, 1>>, <<2, 2>>}

\* <<machine status, node status, description>> of a target with a node
StatusPool ==
    { <<"IDLE", "NEW", "">>,
      <<"IN_PROGRESS", "IN_PROGRESS", DESCR_FLASHING>>,
      <<"IN_PROGRESS", "NEW", DESCR_FLASHING>>,
      <<"ERROR", "ERROR", "disk failure">>,
      <<"ERROR", "ERROR", ERR_NO_DEVICE>> }

\* <<machine status, description, node>>
NodePool ==
    {<<"IDLE", "", NoNode>>, <<"ERROR", "disk failure", NoNode>>,
     <<"IDLE", "", TNode(IMG_BAD, "NEW", "")>>,
     <<"ACTIVE", "", TNode(IMG_OLD, "ACTIVE", "")>>}
    \cup {<<s[1], s[3], TNode(IMG_NEW, s[2], s[3])>> : s \in StatusPool}

IfacePool == {<<IfA, IfB>>, <<IfB, IfA>>, <<IfB, IfC>>, <<>>}

Target(cr, n, ifs, hm) ==
    [machine |-> TMachine(cr, n[1], n[2]), node |-> n[3], interfaces |-> ifs,
     hashMode |-> hm, payload_updated_at |-> "2025-01-01 00:00:00"]

BaseTarget == Target(<<1, 1>>, <<"IDLE", "", NoNode>>, <<IfA, IfB>>, "echo")

\* hashMode: "none" - the answer carries no payload_hash; "own" - it carries
\* a hash the control plane computed over its own records; "echo" - the
\* conditional get answers with the hash the caller sent.
TargetPool ==
    {Target(cr, n, ifs, hm) :
        cr \in CoreRamPool, n \in NodePool, ifs \in IfacePool,
        hm \in {"none", "own"}}
    \cup {BaseTarget}

\* the hash of a target in mode "own": never the hash of a data-plane payload
OwnHash(t) == [cp |-> <<t.machine, t.node, t.interfaces>>]

\* CoreAgentsClient.get_target_payload: the payload the control plane answers
GetTargetPayload(t, d) ==
    [machine |-> t.machine, node |-> t.node, interfaces |-> t.interfaces,
     payload_hash |-> CASE t.hashMode = "none" -> NoHash
                        [] t.hashMode = "own" -> OwnHash(t)
                        [] OTHER -> d.payload_hash,
     payload_updated_at |-> t.payload_updated_at]

\* a payload file left by an earlier run on a machine that holds a node
NodeFile ==
    FullFile(DumpPayload(UpdatePayloadHash(
        [machine |-> [MachineFromSystem EXCEPT !.status = "ACTIVE",
                                               !.boot = "hd0",
                                               !.image = IMG_OLD],
         node |-> TNode(IMG_OLD, "ACTIVE", ""),
         interfaces |-> <<IfA, IfB>>,
         payload_hash |-> NoHash,
         payload_updated_at |-> "1970-01-01 00:01:00"])))

GuestPool ==
    {NoGuest}
    \cup {[boot |-> b, image |-> i, status |-> "NEW"] :
            b \in {"network", "hd0"}, i \in {IMG_NEW, IMG_BAD}}


-----------------------------------------------------------------------------
(* The log of one iteration *)

Call(op, arg, ok) == [op |-> op, arg |-> arg, ok |-> ok]
Ret(fn) == Call("return", fn, TRUE)

\* calls that change the control plane
MutatingOps ==
    {"agents.create", "agents.register_payload", "machines.update",
     "nodes.update", "interfaces.create", "interfaces.delete",
     "interfaces.update", "resources.create", "resources.update",
     "private_keys.refresh"}
ControlPlaneOps == MutatingOps \cup {"agents.get_target_payload"}
DeviceOps == {"device.open", "device.write", "flush_disk"}

Ops(l) == {l[i].op : i \in DOMAIN l}
Has(l, op) == \E i \in DOMAIN l : l[i].op = op

utilVars == <<sysBlock, xfer, mnt, resp>>
\* no utility call is under way
NoUtil == sysBlock = {} /\ xfer = NoCall /\ mnt = NoCall /\ resp = NoCall

envVars == <<mode, target, hostIfaces, guest, views, utilVars>>
histVars == <<file0, marker0, prevConv>>
memVars == <<dp, cp, todo, after, blockDev, written, gmachine>>

-----------------------------------------------------------------------------
(* Init *)

Init ==
    /\ mode \in {"agent", "guest"}
    /\ pc = "idle"
    /\ file \in (IF mode = "agent" THEN {AbsentFile, NodeFile} ELSE {AbsentFile})
    /\ marker = FALSE
    /\ target \in (IF mode = "agent" THEN TargetPool ELSE {BaseTarget})
    /\ hostIfaces = <<IfA, IfB>>
    /\ dp = NoPayload
    /\ cp = NoPayload
    /\ todo = {}
    /\ after = ""
    /\ blockDev = NoDevice
    /\ written = 0
    /\ log = <<>>
    /\ outcome = "none"
    /\ raisedIn = ""
    /\ file0 = file
    /\ marker0 = FALSE
    /\ prevConv = FALSE
    /\ gmachine = NoMachine
    /\ guest \in (IF mode = "guest" THEN GuestPool ELSE {NoGuest})
    /\ views = <<>>
    /\ NoUtil

-----------------------------------------------------------------------------
(* services/agent.py: SeedOSAgentService._iteration *)

\* faulty variant: the payload is saved on the way out of a failed iteration
RaiseAndSave(exc) ==
    /\ pc' = "done"
    /\ outcome' = "error"
    /\ raisedIn' = exc
    /\ file' = IF dp # NoPayload THEN FullFile(DumpPayload(dp)) ELSE file

\* an exception leaves _iteration: nothing catches it on the way, and
\* save_payload is not reached
Raise(exc) ==
    /\ pc' = "done"
    /\ outcome' = "error"
    /\ raisedIn' = exc
    /\ file' = file

\* _iteration returns
Return(how) ==
    /\ pc' = "done"
    /\ outcome' = how
    /\ raisedIn' = ""

\* faulty variant: the iteration does not look at the marker
IterStartUngated ==
    /\ mode = "agent"
    /\ pc = "idle"
    /\ pc' = "collect" /\ outcome' = "running" /\ raisedIn' = ""
    /\ UNCHANGED <<file, marker, log, memVars, envVars, histVars>>

\* the polling loop starts the next iteration (lines 311-316)
IterStart ==
    /\ mode = "agent"
    /\ pc = "idle"
    /\ IF marker
       THEN Return("skipped")
       ELSE pc' = "collect" /\ outcome' = "running" /\ raisedIn' = ""
    /\ UNCHANGED <<file, marker, log, memVars, envVars, histVars>>

\* the iteration is over: the loop sleeps, the payloads of the iteration
\* are dropped
IterEnd ==
    /\ pc = "done"
    /\ pc' = "idle"
    /\ outcome' = "none" /\ raisedIn' = ""
    /\ log' = <<>>
    /\ dp' = NoPayload /\ cp' = NoPayload /\ todo' = {} /\ after' = ""
    /\ blockDev' = NoDevice /\ written' = 0
    /\ file0' = file
    /\ marker0' = marker
    /\ prevConv' = (outcome = "converged")
    /\ UNCHANGED <<file, marker, gmachine, envVars>>

\* collect_payload, no file yet: open(PAYLOAD_PATH, "w") creates it empty
CollectCreate ==
    /\ pc = "collect"
    /\ file.kind = "absent"
    /\ file' = EmptyFile
    /\ pc' = "collect_dump"
    /\ log' = Append(log, Call("file.open", "collect_payload", TRUE))
    /\ UNCHANGED <<marker, outcome, raisedIn, memVars, envVars, histVars>>

\* collect_payload, no file yet: json.dump of the empty payload, the hash
\* is computed after the dump
CollectDump ==
    /\ pc = "collect_dump"
    /\ file' = FullFile(DumpPayload(EmptyPayload(hostIfaces)))
    /\ dp' = UpdatePayloadHash(EmptyPayload(hostIfaces))
    /\ pc' = "fetch"
    /\ log' = Append(log, Call("file.write", "collect_payload", TRUE))
    /\ UNCHANGED <<marker, outcome, raisedIn, cp, todo, after, blockDev,
                   written, gmachine, envVars, histVars>>

\* faulty variant: the refreshed payload is written back as soon as it is loaded
CollectLoadRewrite ==
    /\ pc = "collect"
    /\ file.kind # "absent"
    /\ IF file.kind = "full"
       THEN /\ dp' = LoadPayload(file.data, hostIfaces)
            /\ file' = FullFile(DumpPayload(dp'))
            /\ pc' = "fetch"
            /\ UNCHANGED <<outcome, raisedIn>>
       ELSE /\ Raise("JSONDecodeError")
            /\ dp' = dp
    /\ UNCHANGED <<marker, log, cp, todo, after, blockDev, written, gmachine,
                   envVars, histVars>>

\* collect_payload, the file exists: json.load raises on an empty or cut
\* document
CollectLoad ==
    /\ pc = "collect"
    /\ file.kind # "absent"
    /\ IF file.kind = "full"
       THEN /\ dp' = LoadPayload(file.data, hostIfaces)
            /\ pc' = "fetch"
            /\ UNCHANGED <<file, outcome, raisedIn>>
       ELSE /\ Raise("JSONDecodeError")
            /\ dp' = dp
    /\ UNCHANGED <<marker, log, cp, todo, after, blockDev, written, gmachine,
                   envVars, histVars>>

\* faulty variant: the payloads are not compared, every answer is reconciled
FetchNoCompare ==
    /\ pc = "fetch"
    /\ \E r \in {"ok", "not_found", "error"} :
        /\ log' = Append(log, Call("agents.get_target_payload", r, r = "ok"))
        /\ CASE r = "ok" ->
                  /\ cp' = GetTargetPayload(target, dp)
                  /\ pc' = "actualize_machine"
                  /\ UNCHANGED <<outcome, raisedIn, file>>
             [] r = "not_found" ->
                  /\ pc' = "register"
                  /\ UNCHANGED <<cp, outcome, raisedIn, file>>
             [] OTHER ->
                  /\ Raise("HttpError")
                  /\ cp' = cp
    /\ UNCHANGED <<marker, dp, todo, after, blockDev, written, gmachine,
                   envVars, histVars>>

\* get_target_payload answers (lines 319-331)
Fetch ==
    /\ pc = "fetch"
    /\ \E r \in {"ok", "not_found", "error"} :
        /\ log' = Append(log, Call("agents.get_target_payload", r, r = "ok"))
        /\ CASE r = "ok" ->
                  /\ cp' = GetTargetPayload(target, dp)
                  /\ IF PayloadEq(cp', dp)
                     THEN Return("noop")
                     ELSE pc' = "actualize_machine"
                          /\ UNCHANGED <<outcome, raisedIn>>
                  /\ file' = file
             [] r = "not_found" ->
                  /\ pc' = "register"
                  /\ UNCHANGED <<cp, outcome, raisedIn, file>>
             [] OTHER ->
                  /\ Raise("HttpError")
                  /\ cp' = cp
    /\ UNCHANGED <<marker, dp, todo, after, blockDev, written, gmachine,
                   envVars, histVars>>

\* faulty variant: a Conflict answer to agents.create is not caught
RegisterCreateStrict ==
    /\ pc = "register"
    /\ \E r \in {"ok", "conflict", "error"} :
        /\ log' = Append(log, Call("agents.create", r, r = "ok"))
        /\ IF r # "ok"
           THEN Raise("HttpError")
           ELSE pc' = "register_payload" /\ UNCHANGED <<outcome, raisedIn, file>>
    /\ UNCHANGED <<marker, memVars, envVars, histVars>>

\* _register_agent: agents.create, a Conflict is swallowed (lines 58-65)
RegisterCreate ==
    /\ pc = "register"
    /\ \E r \in {"ok", "conflict", "error"} :
        /\ log' = Append(log, Call("agents.create", r, r = "ok"))
        /\ IF r = "error"
           THEN Raise("HttpError")
           ELSE pc' = "register_payload" /\ UNCHANGED <<outcome, raisedIn, file>>
    /\ UNCHANGED <<marker, memVars, envVars, histVars>>

\* _register_agent: register_payload, then _iteration returns (lines 67, 327)
RegisterPayload ==
    /\ pc = "register_payload"
    /\ \E ok \in BOOLEAN :
        /\ log' = Append(log, Call("agents.register_payload", "dp_payload", ok))
        /\ IF ok THEN Return("registered") /\ file' = file
                 ELSE Raise("HttpError")
    /\ UNCHANGED <<marker, memVars, envVars, histVars>>


-----------------------------------------------------------------------------
(* SeedOSAgentService._actualize_machine *)

\* the keyword fields of machines.update: the data-plane value of every
\* field whose control-plane value differs (lines 126-136)
MachineUpdate(cpM, dpM) ==
    [f \in {x \in {"cores", "ram"} : cpM[x] # dpM[x]} |-> dpM[f]]

\* faulty variant: every observed interface is created, the difference is not taken
IfacesToCreateAll(cpI, dpI) == Range(dpI)

\* set(dp_payload.interfaces) - set(cp_payload.interfaces) (lines 145-147)
IfacesToCreate(cpI, dpI) == Range(dpI) \ Range(cpI)

\* set(cp_payload.interfaces) - set(dp_payload.interfaces) (lines 151-153)
IfacesToDelete(cpI, dpI) == Range(cpI) \ Range(dpI)

\* set(cp_payload.interfaces) & set(dp_payload.interfaces) (lines 157-159)
IfacesToUpdate(cpI, dpI) == Range(cpI) \cap Range(dpI)

\* the guard of the interface block: list inequality (line 142)
IfacesDiffer(cpI, dpI) == cpI # dpI

\* faulty variant: _iteration goes to _actualize_node without
\* _actualize_machine
ActualizeMachineSkipped ==
    /\ pc = "actualize_machine"
    /\ pc' = "actualize_node"
    /\ UNCHANGED <<log, outcome, raisedIn, file>>
    /\ UNCHANGED <<marker, memVars, envVars, histVars>>

\* cores and ram (lines 126-139)
ActualizeMachine ==
    /\ pc = "actualize_machine"
    /\ LET upd == MachineUpdate(cp.machine, dp.machine) IN
       IF DOMAIN upd = {}
       THEN /\ pc' = "am_ifaces"
            /\ UNCHANGED <<log, outcome, raisedIn, file>>
       ELSE \E ok \in BOOLEAN :
            /\ log' = Append(log, Call("machines.update", upd, ok))
            /\ IF ok THEN pc' = "am_ifaces" /\ UNCHANGED <<outcome, raisedIn, file>>
                     ELSE Raise("HttpError")
    /\ UNCHANGED <<marker, memVars, envVars, histVars>>

\* the interface block is entered or skipped (line 142)
ActualizeIfaces ==
    /\ pc = "am_ifaces"
    /\ IF IfacesDiffer(cp.interfaces, dp.interfaces)
       THEN /\ todo' = IfacesToCreate(cp.interfaces, dp.interfaces)
            /\ pc' = "am_create"
            /\ log' = log
       ELSE /\ todo' = todo
            /\ pc' = "actualize_node"
            /\ log' = Append(log, Ret("_actualize_machine"))
    /\ UNCHANGED <<file, marker, outcome, raisedIn, dp, cp, after, blockDev,
                   written, gmachine, envVars, histVars>>

\* one pass of the create loop (line 148); a set is walked in any order
InterfaceCreate ==
    /\ pc = "am_create"
    /\ \E iface \in todo, ok \in BOOLEAN :
        /\ log' = Append(log, Call("interfaces.create", iface, ok))
        /\ todo' = todo \ {iface}
        /\ IF ok THEN UNCHANGED <<pc, outcome, raisedIn, file>>
                 ELSE Raise("HttpError")
    /\ UNCHANGED <<marker, dp, cp, after, blockDev, written, gmachine,
                   envVars, histVars>>

\* the delete loop (line 154): Interface has no attribute uuid, so the first
\* pass raises while it builds the arguments of the call
InterfaceDelete ==
    /\ pc = "am_create"
    /\ todo = {}
    /\ IF IfacesToDelete(cp.interfaces, dp.interfaces) = {}
       THEN pc' = "am_update" /\ UNCHANGED <<outcome, raisedIn, file>>
       ELSE Raise("AttributeError")
    /\ UNCHANGED <<marker, log, memVars, envVars, histVars>>

\* the update loop (line 160): iface.uuid raises as in the delete loop
InterfaceUpdate ==
    /\ pc = "am_update"
    /\ IF IfacesToUpdate(cp.interfaces, dp.interfaces) = {}
       THEN /\ pc' = "actualize_node"
            /\ log' = Append(log, Ret("_actualize_machine"))
            /\ UNCHANGED <<outcome, raisedIn, file>>
       ELSE /\ Raise("AttributeError")
            /\ log' = log
    /\ UNCHANGED <<marker, memVars, envVars, histVars>>


-----------------------------------------------------------------------------
(* SeedOSAgentService._actualize_node and its branches *)

\* faulty variant: the ERROR status is written whatever the payload holds
NeedsErrorAlways(m, n) == TRUE

\* _set_error_status writes unless both statuses are ERROR already
\* (lines 98-101)
NeedsErrorStatus(m, n) == m.status # "ERROR" \/ n.status # "ERROR"

\* faulty variant: the IN_PROGRESS status is written whatever the payload holds
NeedsInProgressAlways(m, n, d) == TRUE

\* faulty variant: only the machine's status is looked at
NeedsInProgressMachineOnly(m, n, d) == m.status # "IN_PROGRESS"

\* _set_in_progress_status writes unless both statuses are IN_PROGRESS and
\* the machine's description is the one asked for (lines 113-117)
NeedsInProgressStatus(m, n, d) ==
    m.status # "IN_PROGRESS" \/ n.status # "IN_PROGRESS" \/ m.description # d

\* the assignments of _set_error_status / _set_in_progress_status to the
\* machine and node of cp_payload
WithStatus(p, st, d) ==
    [p EXCEPT !.machine.status = st, !.machine.description = d,
              !.node.status = st, !.node.description = d]

\* _place_node up to the first control-plane call: the image check, the
\* choice of the block device, the status to set (lines 192-217)
PlaceNodeStart ==
    /\ pc = "actualize_node"
    /\ dp.node = NoNode /\ cp.node # NoNode
    /\ IF ~StartsWith(cp.node.image, "http")
       THEN /\ Raise("ValueError")
            /\ UNCHANGED <<log, cp, after, blockDev>>
       ELSE \E devices \in DiskPool :
            LET disks == GetDisks(devices) IN
            /\ log' = Append(log, Call("get_disks", disks, TRUE))
            /\ IF disks = <<>>
               THEN /\ blockDev' = NoDevice
                    /\ IF NeedsErrorStatus(cp.machine, cp.node)
                       THEN /\ cp' = WithStatus(cp, "ERROR", ERR_NO_DEVICE)
                            /\ pc' = "set_status_machine"
                            /\ after' = "raise"
                            /\ UNCHANGED <<outcome, raisedIn, file>>
                       ELSE /\ Raise("NoAcceptableBlockDevice")
                            /\ UNCHANGED <<cp, after>>
               ELSE /\ blockDev' = disks[1]
                    /\ UNCHANGED <<outcome, raisedIn, file>>
                    /\ IF NeedsInProgressStatus(cp.machine, cp.node,
                                                DESCR_FLASHING)
                       THEN /\ cp' = WithStatus(cp, "IN_PROGRESS",
                                                DESCR_FLASHING)
                            /\ pc' = "set_status_machine"
                            /\ after' = "stream"
                       ELSE /\ pc' = "stream_open"
                            /\ UNCHANGED <<cp, after>>
    /\ UNCHANGED <<marker, dp, todo, written, gmachine, envVars, histVars>>

\* _set_status: machines.update (lines 75-87)
SetStatusMachine ==
    /\ pc = "set_status_machine"
    /\ \E ok \in BOOLEAN :
        /\ log' = Append(log, Call("machines.update",
                        [status |-> cp.machine.status,
                         description |-> cp.machine.description], ok))
        /\ IF ok THEN pc' = "set_status_node" /\ UNCHANGED <<outcome, raisedIn, file>>
                 ELSE Raise("HttpError")
    /\ UNCHANGED <<marker, memVars, envVars, histVars>>

\* _set_status: nodes.update (lines 89-90), then back in _place_node:
\* raise NoAcceptableBlockDevice (line 207) or go on to the transfer
SetStatusNode ==
    /\ pc = "set_status_node"
    /\ \E ok \in BOOLEAN :
        /\ log' = Append(log, Call("nodes.update",
                        [status |-> cp.node.status,
                         description |-> cp.node.description], ok))
        /\ IF ~ok THEN Raise("HttpError")
           ELSE IF after = "raise" THEN Raise("NoAcceptableBlockDevice")
           ELSE pc' = "stream_open" /\ UNCHANGED <<outcome, raisedIn, file>>
    /\ UNCHANGED <<marker, memVars, envVars, histVars>>

\* stream_to_file: urlopen, then open(destination_path, "wb")
StreamOpen ==
    /\ pc = "stream_open"
    /\ \E ok \in BOOLEAN :
        IF ok
        THEN /\ log' = Append(log, Call("device.open", blockDev.name, TRUE))
             /\ pc' = "stream"
             /\ UNCHANGED <<outcome, raisedIn, file>>
        ELSE /\ log' = log
             /\ Raise("URLError")
    /\ written' = 0
    /\ UNCHANGED <<marker, dp, cp, todo, after, blockDev, gmachine,
                   envVars, histVars>>

\* stream_to_file: one chunk read and written
StreamChunk ==
    /\ pc = "stream"
    /\ written < NumChunks
    /\ written' = written + 1
    /\ log' = Append(log, Call("device.write", blockDev.name, TRUE))
    /\ UNCHANGED <<pc, file, marker, outcome, raisedIn, dp, cp, todo, after,
                   blockDev, gmachine, envVars, histVars>>

\* faulty variant: a failed read makes stream_to_file connect again
StreamFailRetry ==
    /\ pc = "stream"
    /\ pc' = "stream_open"
    /\ UNCHANGED <<outcome, raisedIn, file>>
    /\ UNCHANGED <<marker, log, memVars, envVars, histVars>>

\* stream_to_file: response.read raises in the middle of the transfer
StreamFail ==
    /\ pc = "stream"
    /\ Raise("URLError")
    /\ UNCHANGED <<marker, log, memVars, envVars, histVars>>

\* faulty variant: the transfer is accepted without the length check
StreamEndUnchecked ==
    /\ pc = "stream"
    /\ pc' = "flush"
    /\ UNCHANGED <<outcome, raisedIn, file>>
    /\ UNCHANGED <<marker, log, memVars, envVars, histVars>>

\* stream_to_file: the source ends; the length check closes the transfer
StreamEnd ==
    /\ pc = "stream"
    /\ IF written = NumChunks
       THEN pc' = "flush" /\ UNCHANGED <<outcome, raisedIn, file>>
       ELSE Raise("DownloadMismatchError")
    /\ UNCHANGED <<marker, log, memVars, envVars, histVars>>

\* flush_disk, then _configure_core_agent: with a configuration file present
\* config.write(f) raises, f being opened for reading (lines 234-240)
FlushAndConfigure ==
    /\ pc = "flush"
    /\ log' = Append(log, Call("flush_disk", blockDev.name, TRUE))
    /\ \E cfgExists \in BOOLEAN :
        IF cfgExists THEN Raise("UnsupportedOperation")
        ELSE pc' = "active_machine" /\ UNCHANGED <<outcome, raisedIn, file>>
    /\ UNCHANGED <<marker, memVars, envVars, histVars>>

\* the machine is made ACTIVE (lines 245-251)
ActiveMachine ==
    /\ pc = "active_machine"
    /\ \E ok \in BOOLEAN :
        /\ log' = Append(log, Call("machines.update",
                        [boot |-> "hd0", status |-> "ACTIVE",
                         image |-> cp.node.image, description |-> ""], ok))
        /\ IF ok THEN pc' = "active_node" /\ UNCHANGED <<outcome, raisedIn, file>>
                 ELSE Raise("HttpError")
    /\ UNCHANGED <<marker, memVars, envVars, histVars>>

\* the node is made ACTIVE (lines 252-254)
ActiveNode ==
    /\ pc = "active_node"
    /\ \E ok \in BOOLEAN :
        /\ log' = Append(log, Call("nodes.update",
                        [status |-> "ACTIVE", description |-> ""], ok))
        /\ IF ok THEN pc' = "reboot" /\ UNCHANGED <<outcome, raisedIn, file>>
                 ELSE Raise("HttpError")
    /\ UNCHANGED <<marker, memVars, envVars, histVars>>

\* _reboot: the delayed reboot is started and the marker written
\* (lines 53-56); _place_node and _actualize_node return
Reboot ==
    /\ pc = "reboot"
    /\ marker' = TRUE
    /\ log' = log \o <<Call("reboot", "", TRUE), Call("marker.write", "flashed", TRUE),
                        Ret("_actualize_node")>>
    /\ pc' = "actualize_agent"
    /\ UNCHANGED <<file, outcome, raisedIn, memVars, envVars, histVars>>

\* _actualize_image: a stub (lines 293-298, 276-280)
ActualizeImage ==
    /\ pc = "actualize_node"
    /\ cp.node # NoNode /\ dp.node # NoNode
    /\ cp.node.image # dp.node.image
    /\ log' = Append(log, Ret("_actualize_node"))
    /\ pc' = "actualize_agent"
    /\ UNCHANGED <<file, marker, outcome, raisedIn, memVars, envVars, histVars>>

\* the machine record _clear_machine leaves in dp_payload (lines 261-264)
ClearedMachine(m) ==
    [m EXCEPT !.status = "IDLE", !.description = "", !.boot = "network"]

\* _clear_machine: reached whenever the target has no node (lines 302-303)
ClearMachine ==
    /\ pc = "actualize_node"
    /\ cp.node = NoNode
    /\ dp' = [dp EXCEPT !.machine = ClearedMachine(dp.machine)]
    /\ \E ok \in BOOLEAN :
        /\ IF ok
           THEN /\ log' = log \o
                     <<Call("machines.update",
                            [boot |-> "network", status |-> "IDLE",
                             image |-> NoImage, description |-> ""], TRUE),
                       Ret("_actualize_node")>>
                /\ pc' = "actualize_agent"
                /\ UNCHANGED <<outcome, raisedIn, file>>
           ELSE /\ log' = Append(log, Call("machines.update",
                            [boot |-> "network", status |-> "IDLE",
                             image |-> NoImage, description |-> ""], FALSE))
                /\ Raise("HttpError")
    /\ UNCHANGED <<marker, cp, todo, after, blockDev, written, gmachine,
                   envVars, histVars>>

\* no branch of _actualize_node applies: both hold a node with one image
NodeUnchanged ==
    /\ pc = "actualize_node"
    /\ cp.node # NoNode /\ dp.node # NoNode
    /\ cp.node.image = dp.node.image
    /\ log' = Append(log, Ret("_actualize_node"))
    /\ pc' = "actualize_agent"
    /\ UNCHANGED <<file, marker, outcome, raisedIn, memVars, envVars, histVars>>

\* _actualize_agent (lines 305-309)
ActualizeAgent ==
    /\ pc = "actualize_agent"
    /\ dp' = [dp EXCEPT !.payload_updated_at = cp.payload_updated_at]
    /\ log' = Append(log, Ret("_actualize_agent"))
    /\ pc' = "save_open"
    /\ UNCHANGED <<file, marker, outcome, raisedIn, cp, todo, after, blockDev,
                   written, gmachine, envVars, histVars>>

-----------------------------------------------------------------------------
(* CoreAgent.save_payload *)

\* open(PAYLOAD_PATH, "w") truncates the file in place (line 357)
SaveOpen ==
    /\ pc = "save_open"
    /\ file' = EmptyFile
    /\ log' = Append(log, Call("file.open", "save_payload", TRUE))
    /\ pc' = "save_dump"
    /\ UNCHANGED <<marker, outcome, raisedIn, memVars, envVars, histVars>>

\* json.dump and close (lines 358-359); _iteration returns
SaveDump ==
    /\ pc = "save_dump"
    /\ file' = FullFile(DumpPayload(dp))
    /\ log' = Append(log, Call("file.write", "save_payload", TRUE))
    /\ Return("converged")
    /\ UNCHANGED <<marker, memVars, envVars, histVars>>

-----------------------------------------------------------------------------
(* The environment *)

\* the process dies (the forced reboot, a kill) and is started again; a
\* document being written is left empty or cut
Crash ==
    /\ pc \notin {"idle", "done"}
    /\ pc' = "idle"
    /\ outcome' = "none" /\ raisedIn' = ""
    /\ log' = <<>>
    /\ dp' = NoPayload /\ cp' = NoPayload /\ todo' = {} /\ after' = ""
    /\ blockDev' = NoDevice /\ written' = 0
    /\ gmachine' = NoMachine
    /\ file' \in (IF pc \in {"collect_dump", "save_dump"}
                  THEN {file, PartialFile} ELSE {file})
    /\ file0' = file'
    /\ marker0' = marker
    /\ prevConv' = FALSE
    /\ UNCHANGED <<marker, envVars>>

\* the targets that differ from t in one part
OneChange(t) ==
    ({Target(cr, <<t.machine.status, t.machine.description, t.node>>,
             t.interfaces, t.hashMode) : cr \in CoreRamPool}
     \cup {Target(<<t.machine.cores, t.machine.ram>>, n, t.interfaces,
                  t.hashMode) : n \in NodePool}
     \cup {Target(<<t.machine.cores, t.machine.ram>>,
                  <<t.machine.status, t.machine.description, t.node>>,
                  ifs, t.hashMode) : ifs \in IfacePool}
     \cup {[t EXCEPT !.hashMode = hm] : hm \in {"none", "own", "echo"}})
    \cap TargetPool

\* the control plane changes the target between two polls
TargetChange ==
    /\ mode = "agent"
    /\ pc = "idle"
    /\ \E t \in OneChange(target) \ {target} : target' = t
    /\ prevConv' = FALSE
    /\ UNCHANGED <<mode, hostIfaces, guest, views, utilVars, pc, file, marker,
                   outcome,
                   raisedIn, log, memVars, file0, marker0>>

-----------------------------------------------------------------------------
(* drivers/guest.py: GuestCapDriver.run *)

DEFAULT_BLOCK_DEVICE == Dev("vda", 20, FALSE)

\* run is entered; with the marker present it returns at once (lines 89-90)
GuestRunStart ==
    /\ mode = "guest"
    /\ pc = "idle"
    /\ IF marker
       THEN Return("skipped")
       ELSE pc' = "g_create" /\ outcome' = "running" /\ raisedIn' = ""
    /\ UNCHANGED <<file, marker, log, memVars, envVars, histVars>>

\* the machine resource is created unless the driver holds one (lines 93-99)
GuestCreate ==
    /\ pc = "g_create"
    /\ IF gmachine # NoMachine
       THEN /\ pc' = "g_build"
            /\ UNCHANGED <<log, gmachine, outcome, raisedIn, file>>
       ELSE \E r \in {"ok", "exists", "error"} :
            /\ log' = Append(log, Call("resources.create", r, r = "ok"))
            /\ gmachine' = IF r = "ok"
                           THEN [boot |-> "", image |-> "", status |-> "NEW"]
                           ELSE gmachine
            /\ IF r = "error" THEN Raise("HttpError")
               ELSE pc' = "g_build" /\ UNCHANGED <<outcome, raisedIn, file>>
    /\ UNCHANGED <<marker, dp, cp, todo, after, blockDev, written,
                   envVars, histVars>>

\* the guest machine is read from the payload; the boot method and the
\* image reference are checked (lines 102-117).  run goes on after _reboot.
GuestBuild ==
    /\ pc = "g_build"
    /\ IF guest = NoGuest
       THEN /\ Return("noguest")
            /\ UNCHANGED <<log, gmachine, file>>
       ELSE /\ gmachine' = guest
            /\ log' = IF StartsWith(guest.boot, "hd")
                      THEN Append(log, Call("reboot", "", TRUE))
                      ELSE log
            /\ IF ~StartsWith(guest.image, "http")
               THEN Raise("ValueError")
               ELSE pc' = "g_in_progress" /\ UNCHANGED <<outcome, raisedIn, file>>
    /\ UNCHANGED <<marker, dp, cp, todo, after, blockDev, written,
                   envVars, histVars>>

\* the resource is set IN_PROGRESS (lines 123-130)
GuestInProgress ==
    /\ pc = "g_in_progress"
    /\ \E ok \in BOOLEAN :
        /\ log' = Append(log, Call("resources.update",
                                   [status |-> "IN_PROGRESS"], ok))
        /\ IF ok THEN pc' = "g_stream_open" /\ UNCHANGED <<outcome, raisedIn, file>>
                 ELSE Raise("HttpError")
    /\ UNCHANGED <<marker, memVars, envVars, histVars>>

\* base.stream_to_file: urlopen, then open(DEFAULT_BLOCK_DEVICE, "wb")
GuestStreamOpen ==
    /\ pc = "g_stream_open"
    /\ \E ok \in BOOLEAN :
        IF ok
        THEN /\ log' = Append(log, Call("device.open",
                                        DEFAULT_BLOCK_DEVICE.name, TRUE))
             /\ pc' = "g_stream"
             /\ UNCHANGED <<outcome, raisedIn, file>>
        ELSE /\ log' = log
             /\ Raise("URLError")
    /\ written' = 0
    /\ blockDev' = DEFAULT_BLOCK_DEVICE
    /\ UNCHANGED <<marker, dp, cp, todo, after, gmachine, envVars, histVars>>

\* base.stream_to_file: one chunk read, handled and written
GuestStreamChunk ==
    /\ pc = "g_stream"
    /\ written < NumChunks
    /\ written' = written + 1
    /\ log' = Append(log, Call("device.write", blockDev.name, TRUE))
    /\ UNCHANGED <<pc, file, marker, outcome, raisedIn, dp, cp, todo, after,
                   blockDev, gmachine, envVars, histVars>>

\* base.stream_to_file: response.read raises in the middle of the transfer
GuestStreamFail ==
    /\ pc = "g_stream"
    /\ Raise("URLError")
    /\ UNCHANGED <<marker, log, memVars, envVars, histVars>>

\* base.stream_to_file: the source ends; chunker.is_clean closes the transfer
GuestStreamEnd ==
    /\ pc = "g_stream"
    /\ IF written = NumChunks
       THEN pc' = "g_flush" /\ UNCHANGED <<outcome, raisedIn, file>>
       ELSE Raise("AttributeError")
    /\ UNCHANGED <<marker, log, memVars, envVars, histVars>>

\* faulty variant: SupportedFSNotFound is not caught
GuestFlushMountUncaught ==
    /\ pc = "g_flush"
    /\ \E m \in {"mounted", "SupportedFSNotFound", "FileNotFoundError"} :
        /\ log' = log \o <<Call("flush_disk", blockDev.name, TRUE),
                           Call("mount_root_partition", m, m = "mounted")>>
        /\ IF m = "mounted"
           THEN pc' = "g_key" /\ UNCHANGED <<outcome, raisedIn, file>>
           ELSE Raise(m)
    /\ UNCHANGED <<marker, memVars, envVars, histVars>>

\* flush_disk, then mount_root_partition: a root partition is mounted, or
\* none is found (caught), or there is no device at all (lines 153-170)
GuestFlushMount ==
    /\ pc = "g_flush"
    /\ \E m \in {"mounted", "SupportedFSNotFound", "FileNotFoundError"} :
        /\ log' = log \o <<Call("flush_disk", blockDev.name, TRUE),
                           Call("mount_root_partition", m, m = "mounted")>>
        /\ CASE m = "mounted" ->
                  pc' = "g_key" /\ UNCHANGED <<outcome, raisedIn, file>>
             [] m = "SupportedFSNotFound" ->
                  pc' = "g_flashed" /\ UNCHANGED <<outcome, raisedIn, file>>
             [] OTHER -> Raise(m)
    /\ UNCHANGED <<marker, memVars, envVars, histVars>>

\* the private key is fetched and written, the partition unmounted
\* (lines 161-168)
GuestPrivateKey ==
    /\ pc = "g_key"
    /\ \E ok \in BOOLEAN :
        IF ok
        THEN /\ log' = log \o <<Call("private_keys.refresh", "", TRUE),
                                Call("key.write", "", TRUE),
                                Call("unmount_root_partition", "", TRUE)>>
             /\ pc' = "g_flashed"
             /\ UNCHANGED <<outcome, raisedIn, file>>
        ELSE /\ log' = Append(log, Call("private_keys.refresh", "", FALSE))
             /\ Raise("HttpError")
    /\ UNCHANGED <<marker, memVars, envVars, histVars>>

\* the resource is set FLASHED (lines 173-180)
GuestFlashed ==
    /\ pc = "g_flashed"
    /\ \E ok \in BOOLEAN :
        /\ log' = Append(log, Call("resources.update",
                                   [status |-> "FLASHED"], ok))
        /\ IF ok THEN pc' = "g_mark" /\ UNCHANGED <<outcome, raisedIn, file>>
                 ELSE Raise("HttpError")
    /\ UNCHANGED <<marker, memVars, envVars, histVars>>

\* _mark_ready and _shutdown (lines 182-183)
GuestMarkReady ==
    /\ pc = "g_mark"
    /\ marker' = TRUE
    /\ log' = log \o <<Call("marker.write", "flashed", TRUE),
                       Call("shutdown", "", TRUE)>>
    /\ Return("converged")
    /\ UNCHANGED <<file, memVars, envVars, histVars>>

\* the payload handed to the next run names another guest machine
GuestChange ==
    /\ mode = "guest"
    /\ pc = "idle"
    /\ \E g \in GuestPool \ {guest} : guest' = g
    /\ UNCHANGED <<mode, target, hostIfaces, views, utilVars, pc, file, marker,
                   outcome, raisedIn, log, memVars, histVars>>

GuestNext ==
    \/ GuestRunStart \/ GuestCreate \/ GuestBuild \/ GuestInProgress
    \/ GuestStreamOpen \/ GuestStreamChunk \/ GuestStreamFail
    \/ GuestStreamEnd \/ GuestFlushMount \/ GuestPrivateKey
    \/ GuestFlashed \/ GuestMarkReady

AgentNext ==
    \/ IterStart \/ IterEnd \/ CollectCreate \/ CollectDump \/ CollectLoad \/ Fetch
    \/ RegisterCreate \/ RegisterPayload
    \/ ActualizeMachine \/ ActualizeIfaces \/ InterfaceCreate
    \/ InterfaceDelete \/ InterfaceUpdate
    \/ PlaceNodeStart \/ SetStatusMachine \/ SetStatusNode
    \/ StreamOpen \/ StreamChunk \/ StreamFail \/ StreamEnd
    \/ FlushAndConfigure \/ ActiveMachine \/ ActiveNode \/ Reboot
    \/ ActualizeImage \/ ClearMachine \/ NodeUnchanged \/ ActualizeAgent
    \/ SaveOpen \/ SaveDump

Next == AgentNext \/ GuestNext \/ Crash \/ TargetChange \/ GuestChange

Spec == Init /\ [][Next]_vars

-----------------------------------------------------------------------------
(* Reading the log *)

\* positions of the log
Pos == DOMAIN log

\* a control-plane update that succeeded and set `status'
IsStatus(e, op, st) ==
    /\ e.op = op
    /\ e.ok
    /\ "status" \in DOMAIN e.arg
    /\ e.arg.status = st

\* the steps of _iteration that have returned
Returned(fn) == \E i \in Pos : log[i] = Ret(fn)

\* save_payload has been entered
SaveReached ==
    \E i \in Pos : log[i].op = "file.open" /\ log[i].arg = "save_payload"

DeviceWrites == {i \in Pos : log[i].op = "device.write"}

\* the iteration went past the hash comparison into the actualize steps
Reconciling == mode = "agent" /\ cp # NoPayload /\ ~(outcome = "noop")

-----------------------------------------------------------------------------
(* C1 *)

\* C1: an iteration that started with a complete payload file and ended with
\* an exception from one of the actualize steps leaves the file as it was;
\* save_payload is entered only after _actualize_machine, _actualize_node
\* and _actualize_agent have all returned.
C1_FailureKeepsPayload ==
    /\ (pc = "done" /\ outcome = "error" /\ Reconciling
            /\ file0.kind = "full") => file = file0
    /\ (mode = "agent" /\ (SaveReached \/ pc \in {"save_open", "save_dump"}))
          => /\ Returned("_actualize_machine")
             /\ Returned("_actualize_node")
             /\ Returned("_actualize_agent")

\* C1 witness: a transfer failed in an iteration that had loaded a file
C1_Witness ==
    /\ pc = "done" /\ outcome = "error" /\ Reconciling
    /\ file0.kind = "full"
    /\ DeviceWrites # {}
    /\ raisedIn = "URLError"

-----------------------------------------------------------------------------
(* C2 *)

\* C2: the iteration that follows a converged iteration, with the target
\* unchanged in between, reconciles the same target without issuing any
\* mutating control-plane call or device write.
C2_SecondIterationIsQuiet ==
    (pc = "done" /\ prevConv /\ Reconciling)
        => Ops(log) \cap MutatingOps = {}

-----------------------------------------------------------------------------
(* C3 *)

\* C3: an iteration that starts with the flashed marker present makes no
\* call, writes nothing and leaves the payload file alone, and no step ever
\* removes the marker, so every later iteration is skipped as well.
C3_MarkerGate ==
    /\ [](marker0 => /\ log = <<>>
                      /\ file = file0
                      /\ pc \in {"idle", "done"}
                      /\ outcome \in {"none", "skipped"})
    /\ [][marker => marker']_vars

\* C3 witness: an agent iteration was skipped because of the marker
C3_Witness ==
    /\ mode = "agent"
    /\ marker0
    /\ pc = "done"
    /\ outcome = "skipped"

-----------------------------------------------------------------------------
(* C4 *)

\* the whole image went to the device before position i of the log
TransferDoneBefore(i) ==
    /\ Cardinality(DeviceWrites) = NumChunks
    /\ \A w \in DeviceWrites : w < i /\ log[w].ok

\* C4: the marker is created only by an execution whose transfer wrote the
\* whole image and whose final status updates succeeded afterwards; an
\* execution that ends in an error creates no marker.
C4_MarkerMeansFlashed ==
    /\ (marker /\ ~marker0) =>
          \E k \in Pos :
            /\ log[k] = Call("marker.write", "flashed", TRUE)
            /\ IF mode = "agent"
               THEN \E i, j \in Pos :
                      /\ i < j /\ j < k
                      /\ IsStatus(log[i], "machines.update", "ACTIVE")
                      /\ log[i].arg.boot = "hd0"
                      /\ IsStatus(log[j], "nodes.update", "ACTIVE")
                      /\ TransferDoneBefore(i)
               ELSE \E i \in Pos :
                      /\ i < k
                      /\ IsStatus(log[i], "resources.update", "FLASHED")
                      /\ TransferDoneBefore(i)
    /\ (pc = "done" /\ outcome = "error") => marker = marker0

\* C4 witness: the agent has just written the marker
C4_Witness ==
    /\ mode = "agent"
    /\ marker /\ ~marker0
    /\ pc = "actualize_agent"

-----------------------------------------------------------------------------
(* C5 *)

\* an iteration that started without a payload file is writing an image
Placing == mode = "agent" /\ file0.kind = "absent" /\ DeviceWrites # {}

\* successful IN_PROGRESS writes, machine then node, before any device write
InProgressBeforeTransfer ==
    \E i, j \in Pos :
        /\ i < j
        /\ IsStatus(log[i], "machines.update", "IN_PROGRESS")
        /\ IsStatus(log[j], "nodes.update", "IN_PROGRESS")
        /\ \A w \in DeviceWrites : j < w

\* every device write goes to the first device get_disks returned
StreamsToSelectedDevice ==
    \E g \in Pos :
        /\ log[g].op = "get_disks"
        /\ log[g].arg # <<>>
        /\ \A w \in DeviceWrites : g < w /\ log[w].arg = log[g].arg[1].name

\* ACTIVE is written with an empty description, after the whole transfer
ActiveAfterTransfer ==
    \A i \in Pos :
        (log[i].op \in {"machines.update", "nodes.update"}
            /\ "status" \in DOMAIN log[i].arg
            /\ log[i].arg.status = "ACTIVE")
        => TransferDoneBefore(i) /\ log[i].arg.description = ""

\* the target does not say "flashing in progress" already
TargetNotInProgress ==
    \/ target.machine.status # "IN_PROGRESS"
    \/ target.node.status # "IN_PROGRESS"
    \/ target.machine.description # DESCR_FLASHING

\* C5 as stated: a placement writes machine and node IN_PROGRESS before the
\* first byte goes to the selected device, and ACTIVE (empty description)
\* only after the transfer completed.
C5_PlacementOrder ==
    Placing => /\ InProgressBeforeTransfer
               /\ StreamsToSelectedDevice
               /\ ActiveAfterTransfer

\* C5 amended: the IN_PROGRESS writes precede the first device write unless
\* the target already reports machine and node IN_PROGRESS with the flashing
\* description, in which case no IN_PROGRESS write is made; the image goes
\* to the selected device and ACTIVE (empty description) is written only
\* after the transfer completed.
C5_PlacementOrderAmended ==
    Placing => /\ IF TargetNotInProgress
                  THEN InProgressBeforeTransfer
                  ELSE \A i \in Pos :
                         ~IsStatus(log[i], "machines.update", "IN_PROGRESS")
                         /\ ~IsStatus(log[i], "nodes.update", "IN_PROGRESS")
               /\ StreamsToSelectedDevice
               /\ ActiveAfterTransfer

\* C5 witness: a placement that set IN_PROGRESS has made the node ACTIVE
C5_Witness ==
    /\ Placing
    /\ TargetNotInProgress
    /\ \E i \in Pos : IsStatus(log[i], "nodes.update", "ACTIVE")

-----------------------------------------------------------------------------
(* C6 *)

\* C6: after an iteration that placed a newly assigned node and completed
\* without error, the hash of the payload in the file equals the hash of the
\* target payload.
C6_PersistedHashIsTargetHash ==
    (Placing /\ pc = "done" /\ outcome = "converged")
        => /\ file.kind = "full"
           /\ PayloadHash(RestorePayload(file.data)) = PayloadHash(cp)

-----------------------------------------------------------------------------
(* C7 *)

\* an agent iteration ended in self-registration, the no-op or an error
EndedWithoutConvergence ==
    /\ mode = "agent"
    /\ pc = "done"
    /\ outcome \in {"registered", "noop", "error"}

\* C7 as stated: an iteration that ends in self-registration, in the
\* hash-equal no-op or in an error neither creates nor modifies the file.
C7_OnlyConvergenceWrites ==
    EndedWithoutConvergence => file = file0

\* C7 amended: such an iteration never modifies a payload file that existed
\* when it started; when there was none, collect_payload has created it
\* with the empty payload (no node, no hash, the live interfaces).
C7_OnlyConvergenceModifies ==
    EndedWithoutConvergence =>
        IF file0.kind = "absent"
        THEN file = FullFile(DumpPayload(EmptyPayload(hostIfaces)))
        ELSE file = file0

\* C7 witness: a self-registration iteration that started without a file
C7_Witness ==
    /\ EndedWithoutConvergence
    /\ outcome = "registered"
    /\ file0.kind = "absent"
    /\ file.kind = "full"

-----------------------------------------------------------------------------
(* C8 *)

\* C8: the payload file is never seen empty or partially written: it is
\* absent or holds a complete payload in every reachable state.
C8_FileNeverTorn == file.kind \in {"absent", "full"}

-----------------------------------------------------------------------------
(* _actualize_machine over every pair of interface lists *)

MaxIfaces == 2

\* the lists of at most MaxIfaces interfaces
IfaceLists ==
    UNION {[1..n -> {IfA, IfB, IfC}] : n \in 0..MaxIfaces}

\* _actualize_machine is entered with an observed list O in dp_payload and
\* a target list T in cp_payload
InitIfaces ==
    /\ mode = "agent"
    /\ pc = "actualize_machine"
    /\ hostIfaces \in IfaceLists
    /\ file = FullFile(DumpPayload(EmptyPayload(hostIfaces)))
    /\ marker = FALSE
    /\ \E cr \in CoreRamPool, T \in IfaceLists :
          target = Target(cr, <<"IDLE", "", NoNode>>, T, "own")
    /\ dp = UpdatePayloadHash(EmptyPayload(hostIfaces))
    /\ cp = GetTargetPayload(target, dp)
    /\ todo = {}
    /\ after = ""
    /\ blockDev = NoDevice
    /\ written = 0
    /\ log = <<Call("agents.get_target_payload", "ok", TRUE)>>
    /\ outcome = "running"
    /\ raisedIn = ""
    /\ file0 = file
    /\ marker0 = FALSE
    /\ prevConv = FALSE
    /\ gmachine = NoMachine
    /\ guest = NoGuest
    /\ views = <<>>
    /\ NoUtil

NextIfaces ==
    \/ ActualizeMachine
    \/ ActualizeIfaces
    \/ InterfaceCreate
    \/ InterfaceDelete
    \/ InterfaceUpdate

SpecIfaces == InitIfaces /\ [][NextIfaces]_vars

\* the interfaces a kind of call was made for
Called(op) == {log[i].arg : i \in {k \in Pos : log[k].op = op}}

InterfaceOps == {"interfaces.create", "interfaces.delete", "interfaces.update"}

\* _actualize_machine is over and no call it made was refused
StepOver ==
    /\ pc \in {"actualize_node", "done"}
    /\ \A i \in Pos : log[i].ok

-----------------------------------------------------------------------------
(* C9 *)

\* C9: for an observed list O and a target list T, _actualize_machine creates
\* exactly the interfaces of T \ O, deletes exactly those of O \ T and
\* updates exactly those of both.
C9_InterfaceSetDiff ==
    StepOver =>
        LET O == Range(dp.interfaces)
            T == Range(cp.interfaces)
        IN /\ Called("interfaces.create") = T \ O
           /\ Called("interfaces.delete") = O \ T
           /\ Called("interfaces.update") = T \cap O

-----------------------------------------------------------------------------
(* C10 *)

-----------------------------------------------------------------------------
(* dm/models.py: restoring, comparing and hashing pairs of payloads *)

\* the keys of a dumped payload, in the order of the dataclass fields
PayloadKeys ==
    <<"machine", "node", "interfaces", "payload_hash", "payload_updated_at">>

\* orders in which a JSON object may list these keys
KeyOrders == {<<1, 2, 3, 4, 5>>, <<5, 4, 3, 2, 1>>, <<3, 1, 4, 2, 5>>}

\* the JSON object of payload p with its keys in the given order
ViewOf(p, order) ==
    [i \in DOMAIN PayloadKeys |->
        <<PayloadKeys[order[i]], DumpPayload(p)[PayloadKeys[order[i]]]>>]

\* the JSON object becomes keyword arguments: values are taken by key
ParseView(doc) ==
    [k \in {doc[i][1] : i \in DOMAIN doc} |->
        doc[CHOOSE i \in DOMAIN doc : doc[i][1] = k][2]]

\* payload_hash values a control plane may send
ExplicitHashes == {[digest |-> "h1"], [digest |-> "h2"]}

PayloadPool ==
    {[machine |-> m, node |-> n, interfaces |-> ifs, payload_hash |-> h,
      payload_updated_at |-> "1970-01-01 00:01:00"] :
        m \in {MachineFromSystem, [MachineFromSystem EXCEPT !.image = IMG_OLD]},
        n \in {NoNode, TNode(IMG_NEW, "NEW", ""), TNode(IMG_NEW, "ACTIVE", "")},
        ifs \in IfacePool,
        h \in {NoHash} \cup ExplicitHashes}

\* p and the payloads that differ from p in one field
Variants(p) ==
    {p}
    \cup {[p EXCEPT !.interfaces = ifs] : ifs \in IfacePool}
    \cup {[p EXCEPT !.payload_hash = h] :
            h \in {NoHash, CalcHash(p)} \cup ExplicitHashes}
    \cup {[p EXCEPT !.node = n] : n \in {NoNode, TNode(IMG_NEW, "NEW", "")}}
    \cup {[p EXCEPT !.machine.cores = 2],
          [p EXCEPT !.machine.image = IMG_NEW],
          [p EXCEPT !.machine.status = "ACTIVE"],
          [p EXCEPT !.machine.description = "disk failure"],
          [p EXCEPT !.payload_updated_at = "2025-01-01 00:00:00"]}
    \cup {[p EXCEPT !.interfaces =
              [i \in DOMAIN @ |-> [@[i] EXCEPT !.name = "lan0",
                                               !.mtu = 9000]]]}
    \cup (IF p.node = NoNode THEN {}
          ELSE {[p EXCEPT !.node.status = "ERROR"],
                [p EXCEPT !.node.description = "disk failure"],
                [p EXCEPT !.node.cores = 2]})

InitPayload ==
    /\ mode = "agent"
    /\ pc = "restore"
    /\ \E p \in PayloadPool, o1 \in KeyOrders, o2 \in KeyOrders :
         \E q \in Variants(p) : views = <<ViewOf(p, o1), ViewOf(q, o2)>>
    /\ file = AbsentFile
    /\ marker = FALSE
    /\ target = BaseTarget
    /\ hostIfaces = <<IfA, IfB>>
    /\ NoUtil
    /\ dp = NoPayload
    /\ cp = NoPayload
    /\ todo = {}
    /\ after = ""
    /\ blockDev = NoDevice
    /\ written = 0
    /\ log = <<>>
    /\ outcome = "none"
    /\ raisedIn = ""
    /\ file0 = file
    /\ marker0 = FALSE
    /\ prevConv = FALSE
    /\ gmachine = NoMachine
    /\ guest = NoGuest

\* Payload.restore_from_simple_view of both views
RestoreViews ==
    /\ pc = "restore"
    /\ dp' = RestorePayload(ParseView(views[1]))
    /\ cp' = RestorePayload(ParseView(views[2]))
    /\ pc' = "compare"
    /\ UNCHANGED <<file, marker, log, outcome, raisedIn, todo, after,
                   blockDev, written, gmachine, envVars, histVars>>

\* payload1 == payload2
ComparePayloads ==
    /\ pc = "compare"
    /\ outcome' = IF PayloadEq(dp, cp) THEN "equal" ELSE "differ"
    /\ pc' = "hash"
    /\ UNCHANGED <<file, marker, log, raisedIn, memVars, envVars, histVars>>

\* update_payload_hash of both payloads
HashPayloads ==
    /\ pc = "hash"
    /\ dp' = UpdatePayloadHash(dp)
    /\ cp' = UpdatePayloadHash(cp)
    /\ pc' = "hashed"
    /\ UNCHANGED <<file, marker, log, outcome, raisedIn, todo, after,
                   blockDev, written, gmachine, envVars, histVars>>

NextPayload == RestoreViews \/ ComparePayloads \/ HashPayloads

SpecPayload == InitPayload /\ [][NextPayload]_vars

\* the two views hold the same key/value pairs, in whatever key order
SameDocument == Range(views[1]) = Range(views[2])

\* the fields of an interface that enter the hash
HashedIfaces(ifs) ==
    [i \in DOMAIN ifs |-> <<ifs[i].mac, ifs[i].ipv4, ifs[i].mask>>]

\* the hashed content of the two payloads agrees, interface order included
SameHashedContent ==
    /\ dp.machine.image = cp.machine.image
    /\ dp.node = cp.node
    /\ HashedIfaces(dp.interfaces) = HashedIfaces(cp.interfaces)

\* the two payloads list the same interfaces in a different order
ReorderedIfaces ==
    /\ Len(dp.interfaces) = Len(cp.interfaces)
    /\ Range(dp.interfaces) = Range(cp.interfaces)
    /\ dp.interfaces # cp.interfaces

-----------------------------------------------------------------------------
(* C11 *)

-----------------------------------------------------------------------------
(* C12 *)

\* C12: payloads are compared by hash alone: an explicit payload_hash stands
\* for the payload whatever its other fields hold, an empty one is replaced
\* by the hash computed from the fields, and the payloads are equal exactly
\* when these two values are.
C12_EqualityByHash ==
    pc = "hash" =>
        LET hd == IF dp.payload_hash = NoHash THEN CalcHash(dp)
                  ELSE dp.payload_hash
            hc == IF cp.payload_hash = NoHash THEN CalcHash(cp)
                  ELSE cp.payload_hash
        IN (outcome = "equal") <=> (hd = hc)

\* C12 witness: two payloads with the same explicit hash and different
\* machines compared equal
C12_Witness ==
    /\ pc = "hash"
    /\ outcome = "equal"
    /\ dp.payload_hash \in ExplicitHashes
    /\ dp.machine # cp.machine

-----------------------------------------------------------------------------
(* C13 *)

\* the iteration found the two payloads equal and returned
NoOpIteration == mode = "agent" /\ pc = "done" /\ outcome = "noop"

\* no mutating call, no transfer, no status write, no reboot, no marker
NothingDone ==
    /\ Ops(log) \cap (MutatingOps \cup DeviceOps
                        \cup {"get_disks", "reboot", "marker.write"}) = {}
    /\ marker = marker0
    /\ ~SaveReached

\* C13 as stated: when the fetched payload equals the data-plane payload by
\* hash, the iteration issues no mutating call, starts no transfer, changes
\* no status and does not write the payload file.
C13_EqualIsNoOp ==
    /\ NoOpIteration => NothingDone /\ file = file0
    /\ (mode = "agent" /\ pc = "actualize_machine")
          => PayloadHash(cp) # PayloadHash(dp)

\* C13 amended: such an iteration issues no mutating call, starts no
\* transfer, changes no status and does not call save_payload; a payload
\* file that existed is left as it was, and when there was none the only
\* write is the one collect_payload made before the comparison.
C13_EqualIsNoOpAmended ==
    /\ NoOpIteration =>
          /\ NothingDone
          /\ PayloadHash(cp) = PayloadHash(dp)
          /\ IF file0.kind = "absent"
             THEN file = FullFile(DumpPayload(EmptyPayload(hostIfaces)))
             ELSE file = file0
    /\ (mode = "agent" /\ pc = "actualize_machine")
          => PayloadHash(cp) # PayloadHash(dp)

\* C13 witness: a no-op iteration over an existing file whose target differs
\* from the payload in a field outside the hash
C13_Witness ==
    /\ NoOpIteration
    /\ file0.kind = "full"
    /\ cp.machine # dp.machine

-----------------------------------------------------------------------------
(* C14 *)

\* positions of the log holding a call of kind op
CallsOf(op) == {i \in Pos : log[i].op = op}

\* get_target_payload answered NotFound in this iteration
NotFoundAnswered ==
    /\ mode = "agent"
    /\ \E i \in Pos : log[i] = Call("agents.get_target_payload",
                                      "not_found", FALSE)

\* C14: after a NotFound answer the iteration issues one agents.create,
\* takes a Conflict answer as success, then issues exactly one
\* register_payload and ends; it runs no actualize step and does not call
\* save_payload.
C14_SelfRegistration ==
    (NotFoundAnswered /\ pc = "done") =>
        /\ Cardinality(CallsOf("agents.create")) = 1
        /\ \A i \in CallsOf("agents.create") :
              IF log[i].arg \in {"ok", "conflict"}
              THEN /\ CallsOf("agents.register_payload") = {i + 1}
                   /\ Len(log) = i + 1
                   /\ outcome = IF log[i + 1].ok THEN "registered"
                                ELSE "error"
              ELSE /\ CallsOf("agents.register_payload") = {}
                   /\ outcome = "error"
        /\ cp = NoPayload
        /\ ~Returned("_actualize_machine")
        /\ ~Returned("_actualize_node")
        /\ ~Returned("_actualize_agent")
        /\ Ops(log) \cap ({"machines.update", "nodes.update",
                            "interfaces.create"} \cup DeviceOps) = {}
        /\ ~SaveReached

\* C14 witness: registration went through after a Conflict on create
C14_Witness ==
    /\ NotFoundAnswered
    /\ pc = "done"
    /\ outcome = "registered"
    /\ \E i \in Pos : log[i] = Call("agents.create", "conflict", FALSE)

-----------------------------------------------------------------------------
(* Statuses on the control plane *)

\* positions of the successful status writes of kind op
StatusWrites(op) ==
    {i \in Pos : log[i].op = op /\ log[i].ok /\ "status" \in DOMAIN log[i].arg}

\* the status the control plane holds: the last one written in this
\* iteration, or the one the target reported
LastStatus(op, reported) ==
    LET S == StatusWrites(op)
    IN IF S = {} THEN reported
       ELSE log[CHOOSE i \in S : \A j \in S : j <= i].arg.status

\* _place_node chose no device, or the transfer failed
PlacementFailed ==
    /\ mode = "agent"
    /\ pc = "done"
    /\ outcome = "error"
    /\ Has(log, "get_disks")
    /\ raisedIn \in {"NoAcceptableBlockDevice", "URLError",
                      "DownloadMismatchError"}

-----------------------------------------------------------------------------
(* C15 *)

\* C15: when _place_node fails after it was started, the status of the
\* machine and of the node on the control plane is ERROR; they are never
\* left IN_PROGRESS.
C15_FailureSetsError ==
    PlacementFailed =>
        /\ LastStatus("machines.update", target.machine.status) = "ERROR"
        /\ LastStatus("nodes.update", target.node.status) = "ERROR"

-----------------------------------------------------------------------------
(* C16 *)

\* get_disks returned nothing in this iteration
NoDiskFound ==
    /\ mode = "agent"
    /\ \E g \in Pos : log[g].op = "get_disks" /\ log[g].arg = <<>>

\* nothing of a placement happened: no IN_PROGRESS, no transfer, no marker,
\* no save_payload
NoPlacementEffect ==
    /\ \A i \in Pos : ~IsStatus(log[i], "machines.update", "IN_PROGRESS")
                       /\ ~IsStatus(log[i], "nodes.update", "IN_PROGRESS")
    /\ Ops(log) \cap (DeviceOps \cup {"reboot", "marker.write"}) = {}
    /\ marker = marker0
    /\ ~SaveReached

\* ERROR with the description of the missing device was written for the
\* machine and then for the node
ErrorWritten ==
    \E i, j \in Pos :
        /\ i < j
        /\ log[i] = Call("machines.update",
                         [status |-> "ERROR", description |-> ERR_NO_DEVICE],
                         TRUE)
        /\ log[j] = Call("nodes.update",
                         [status |-> "ERROR", description |-> ERR_NO_DEVICE],
                         TRUE)

-----------------------------------------------------------------------------
(* C17 *)

\* C17: when the image reference is not an HTTP URL the validation error is
\* raised before any device is opened or written, anything is flushed or
\* mounted, and any reboot or shutdown is started - in the agent and in the
\* guest driver.
C17_ValidationBeforeDestruction ==
    (pc = "done" /\ raisedIn = "ValueError") =>
        Ops(log) \cap (DeviceOps \cup {"reboot", "shutdown", "marker.write",
                                      "mount_root_partition"}) = {}

-----------------------------------------------------------------------------
(* C18 *)

\* C18: a target node image that is not an HTTP reference is reported to the
\* control plane as status ERROR for machine and node before the error
\* leaves the iteration.
C18_ValidationSetsError ==
    (mode = "agent" /\ pc = "done" /\ raisedIn = "ValueError") =>
        /\ \E i \in Pos : IsStatus(log[i], "machines.update", "ERROR")
        /\ \E i \in Pos : IsStatus(log[i], "nodes.update", "ERROR")

-----------------------------------------------------------------------------
(* C19 *)

\* the status of the machine the iteration started from: the one in the
\* payload file, or the one Machine.from_system gives
ObservedStatus ==
    IF file0.kind = "full" THEN file0.data.machine.status
    ELSE MachineFromSystem.status

\* the write _clear_machine makes
IdleWrite ==
    Call("machines.update",
         [boot |-> "network", status |-> "IDLE", image |-> NoImage,
          description |-> ""], TRUE)

\* C19: in an iteration whose target has no node, the machine is written
\* IDLE (empty description, network boot, no image) when its observed status
\* is not IDLE, and nothing is written for its status when it is IDLE.
C19_NoNodeForcesIdle ==
    (mode = "agent" /\ pc = "done" /\ outcome \in {"noop", "converged"}
        /\ cp # NoPayload /\ cp.node = NoNode)
    => IF ObservedStatus # "IDLE"
       THEN \E i \in Pos : log[i] = IdleWrite
       ELSE StatusWrites("machines.update") = {}

-----------------------------------------------------------------------------
(* C20 *)

\* the target already reports the status and the description asked for
TargetAlready(st, d) ==
    /\ target.node # NoNode
    /\ target.machine.status = st /\ target.machine.description = d
    /\ target.node.status = st /\ target.node.description = d

\* no status st is sent in this iteration
NotSent(st) ==
    \A i \in Pos :
        (log[i].op \in {"machines.update", "nodes.update"}
            /\ "status" \in DOMAIN log[i].arg)
        => log[i].arg.status # st

\* C20: every status write of the agent carries a description, and ERROR or
\* IN_PROGRESS is not sent when the target already reports that status with
\* the same description for machine and node.
C20_StatusWritesAreGuarded ==
    mode = "agent" =>
        /\ \A i \in Pos :
              (log[i].op \in {"machines.update", "nodes.update"}
                  /\ "status" \in DOMAIN log[i].arg)
              => "description" \in DOMAIN log[i].arg
        /\ TargetAlready("ERROR", ERR_NO_DEVICE) => NotSent("ERROR")
        /\ TargetAlready("IN_PROGRESS", DESCR_FLASHING)
              => NotSent("IN_PROGRESS")

\* C20 witness: a transfer was started for a target that already reported
\* the flashing in progress
C20_Witness ==
    /\ mode = "agent"
    /\ TargetAlready("IN_PROGRESS", DESCR_FLASHING)
    /\ DeviceWrites # {}
    /\ NotSent("IN_PROGRESS")

-----------------------------------------------------------------------------
(* The utilities on their own: the state every such specification starts   *)
(* from has no iteration under way                                          *)

AtRest ==
    /\ file = AbsentFile
    /\ marker = FALSE
    /\ target = BaseTarget
    /\ hostIfaces = <<IfA, IfB>>
    /\ dp = NoPayload
    /\ cp = NoPayload
    /\ todo = {}
    /\ after = ""
    /\ blockDev = NoDevice
    /\ written = 0
    /\ log = <<>>
    /\ outcome = "none"
    /\ raisedIn = ""
    /\ file0 = file
    /\ marker0 = FALSE
    /\ prevConv = FALSE
    /\ gmachine = NoMachine
    /\ guest = NoGuest
    /\ views = <<>>

restVars == <<file, marker, target, hostIfaces, dp, cp, todo, after, written,
              outcome, raisedIn, file0, marker0, prevConv, gmachine, guest,
              views>>

-----------------------------------------------------------------------------
(* common/system.py get_disks and the selection of _place_node, over every *)
(* content of /sys/block                                                    *)

\* sizes under /sys/block are drawn in units of 512 MiB
UnitsPerGiB == 2

\* size_gb = (size_in_sectors * sector_size) >> 30
SizeGb(units) == units \div UnitsPerGiB

\* 4.5 GiB, 5 GiB, 20 GiB
RawSizes == {9, 10, 40}

RawDev(n, u, v) == [name |-> n, units |-> u, virtual |-> v]

\* what get_disks reads of one entry of /sys/block
ReadSysBlock(raw) == {Dev(r.name, SizeGb(r.units), r.virtual) : r \in raw}

\* every /sys/block with at most one entry per name
SysBlockPool ==
    LET Entry == {"absent"} \cup (RawSizes \X BOOLEAN)
        Pick == [Range(DevNames) -> Entry]
    IN { {RawDev(n, f[n][1], f[n][2]) :
              n \in {m \in Range(DevNames) : f[m] # "absent"}} : f \in Pick }

InitDisks ==
    /\ mode = "agent"
    /\ pc = "select"
    /\ sysBlock \in SysBlockPool
    /\ xfer = NoCall /\ mnt = NoCall /\ resp = NoCall
    /\ AtRest

\* _place_node lines 201-207: the first disk get_disks yields, or none
SelectDevice ==
    /\ pc = "select"
    /\ LET disks == GetDisks(ReadSysBlock(sysBlock)) IN
        /\ log' = Append(log, Call("get_disks", disks, TRUE))
        /\ blockDev' = IF disks = <<>> THEN NoDevice ELSE disks[1]
    /\ pc' = "selected"
    /\ UNCHANGED <<mode, restVars, utilVars>>

NextDisks == SelectDevice

SpecDisks == InitDisks /\ [][NextDisks]_vars

\* the entries of /sys/block that are physical and of at least the minimum
\* size, in bytes
Acceptable ==
    {r \in sysBlock :
        ~r.virtual /\ r.units >= MINIMAL_BLOCK_DEVICE_SIZE_GB * UnitsPerGiB}

-----------------------------------------------------------------------------
(* stream_to_file on its own: common/http.py (the agent's, mode "agent")   *)
(* and common/http/base.py with its chunk handlers (the guest driver's,    *)
(* mode "guest"), over every source, declared length and chunk size        *)

\* the longest image, in bytes
MaxBytes == 3

Min(a, b) == IF a < b THEN a ELSE b

\* the server's gzip: a run of two a's is shortened to one code
RECURSIVE Compress(_)
Compress(p) ==
    IF p = <<>> THEN <<>>
    ELSE IF Len(p) >= 2 /\ p[1] = "a" /\ p[2] = "a"
         THEN <<"A">> \o Compress(SubSeq(p, 3, Len(p)))
         ELSE <<p[1]>> \o Compress(Tail(p))

\* zlib.decompressobj(wbits=15 + 32).decompress: the output of the codes of
\* one chunk; the header and the trailer give no output
RECURSIVE Decompress(_)
Decompress(codes) ==
    IF codes = <<>> THEN <<>>
    ELSE (CASE codes[1] = "A" -> <<"a", "a">>
            [] codes[1] \in {"a", "b"} -> <<codes[1]>>
            [] OTHER -> <<>>) \o Decompress(Tail(codes))

\* what a server may deliver: an image as it is, or its gzip stream (header,
\* codes, a trailer of two parts) whole or cut before the end of the trailer
SourcePool ==
    LET Images == UNION {[1..n -> {"a", "b"}] : n \in 0..MaxBytes}
        Gz(p) == <<"H">> \o Compress(p) \o <<"T1", "T2">>
    IN {[body |-> p, gz |-> FALSE, image |-> p] : p \in Images}
       \cup {[body |-> SubSeq(Gz(p), 1, Len(Gz(p)) - cut), gz |-> TRUE,
              image |-> p] : p \in Images, cut \in 0..2}

\* the Content-Length header is absent, or counts the bytes the server holds:
\* those delivered, or one more when the source is cut by one byte
InitTransfer ==
    /\ mode \in {"agent", "guest"}
    /\ pc = "x_open"
    /\ \E s \in SourcePool, hdr \in BOOLEAN, missing \in 0..1,
          cs \in 1..MaxBytes, handler \in BOOLEAN :
         /\ mode = "agent" => ~s.gz
         /\ xfer = [body |-> s.body, gz |-> s.gz, image |-> s.image,
                    header |-> IF hdr THEN <<Len(s.body) + missing>>
                               ELSE <<>>,
                    chunk_size |-> cs, content_length |-> 0, read |-> 0,
                    in_bytes |-> 0, dest |-> <<>>, eof |-> FALSE,
                    written |-> 0, handler |-> handler, calls |-> <<>>,
                    result |-> ""]
    /\ sysBlock = {} /\ mnt = NoCall /\ resp = NoCall
    /\ AtRest

\* urlopen, the Content-Length header, open(destination_path, "wb"):
\* http.py reads headers["Content-Length"], base.py headers.get(.., 0)
XferOpen ==
    /\ pc = "x_open"
    /\ IF mode = "agent" /\ xfer.header = <<>>
       THEN /\ xfer' = [xfer EXCEPT !.result = "TypeError"]
            /\ pc' = "x_done"
       ELSE /\ xfer' = [xfer EXCEPT !.content_length =
                           IF xfer.header = <<>> THEN 0 ELSE xfer.header[1]]
            /\ pc' = "x_read"
    /\ UNCHANGED <<mode, blockDev, log, restVars, sysBlock, mnt, resp>>

\* faulty variant: a chunk is written in front of the earlier ones
HandleChunkFront(m, x, chunk) ==
    [x EXCEPT !.in_bytes = @ + Len(chunk), !.dest = chunk \o @]

\* http.py lines 143-144; PlainChunkHandler.handle_chunk;
\* GZChunkHandler.handle_chunk (the inner loop writes the whole output of
\* the chunk, chunk_size bytes at a time)
HandleChunk(m, x, chunk) ==
    IF m = "guest" /\ x.gz
    THEN [x EXCEPT !.in_bytes = @ + Len(chunk),
                   !.dest = @ \o Decompress(chunk),
                   !.eof = @ \/ "T2" \in Range(chunk)]
    ELSE [x EXCEPT !.in_bytes = @ + Len(chunk), !.dest = @ \o chunk]

\* chunk_handler(content_length, read, written, chunk) of base.py,
\* chunk_handler(content_length, written, chunk) of http.py; `dest' is the
\* destination as the callback finds it
Progress(m, x, chunk) ==
    IF m = "guest"
    THEN [total |-> x.content_length, read |-> x.read,
          written |-> x.written, chunk |-> chunk, dest |-> x.dest]
    ELSE [total |-> x.content_length, written |-> x.written,
          chunk |-> chunk, dest |-> x.dest]

\* faulty variant: the callback is called before the loop is left, for the
\* empty chunk too
XferChunkCallsOnEmpty ==
    /\ pc = "x_read"
    /\ LET chunk == SubSeq(xfer.body, xfer.read + 1,
                           Min(xfer.read + xfer.chunk_size, Len(xfer.body)))
           y == HandleChunk(mode, [xfer EXCEPT !.read = @ + Len(chunk)],
                            chunk)
           z == [y EXCEPT !.written = @ + (Len(y.dest) - Len(xfer.dest))]
       IN /\ xfer' = IF z.handler
                     THEN [z EXCEPT !.calls =
                              Append(@, Progress(mode, z, chunk))]
                     ELSE z
          /\ pc' = IF chunk = <<>> THEN "x_check" ELSE "x_read"
    /\ UNCHANGED <<mode, blockDev, log, restVars, sysBlock, mnt, resp>>

\* one turn of the loop: response.read(chunk_size), the chunk handled and
\* what it wrote counted, the loop left on an empty chunk, the callback
\* called when there is one
XferChunk ==
    /\ pc = "x_read"
    /\ LET chunk == SubSeq(xfer.body, xfer.read + 1,
                           Min(xfer.read + xfer.chunk_size, Len(xfer.body)))
           y == HandleChunk(mode, [xfer EXCEPT !.read = @ + Len(chunk)],
                            chunk)
           z == [y EXCEPT !.written = @ + (Len(y.dest) - Len(xfer.dest))]
       IN /\ xfer' = IF chunk # <<>> /\ z.handler
                     THEN [z EXCEPT !.calls =
                              Append(@, Progress(mode, z, chunk))]
                     ELSE z
          /\ pc' = IF chunk = <<>> THEN "x_check" ELSE "x_read"
    /\ UNCHANGED <<mode, blockDev, log, restVars, sysBlock, mnt, resp>>

\* faulty variant: the compressed stream is judged by the byte count alone
IsCleanCountOnly(m, x) ==
    IF x.content_length # x.in_bytes
    THEN (IF m = "agent" THEN "DownloadMismatchError" ELSE "AttributeError")
    ELSE "ok"

\* the completion check. http.py lines 149-150 raise DownloadMismatchError;
\* GZChunkHandler.is_clean raises DownloadDecompressError without eof and
\* then calls BaseChunkHandler.is_clean, which, the counts differing,
\* evaluates self.written: no handler has that attribute
IsClean(m, x) ==
    IF m = "agent"
    THEN (IF x.content_length # x.in_bytes THEN "DownloadMismatchError"
          ELSE "ok")
    ELSE IF x.gz /\ ~x.eof THEN "DownloadDecompressError"
    ELSE IF x.content_length # x.in_bytes THEN "AttributeError"
    ELSE "ok"

XferCheck ==
    /\ pc = "x_check"
    /\ xfer' = [xfer EXCEPT !.result = IsClean(mode, xfer)]
    /\ pc' = "x_done"
    /\ UNCHANGED <<mode, blockDev, log, restVars, sysBlock, mnt, resp>>

NextTransfer == XferOpen \/ XferChunk \/ XferCheck

SpecTransfer == InitTransfer /\ [][NextTransfer]_vars

\* C21: an uncompressed source of N bytes whose declared Content-Length is
\* N is, for every chunk size, transferred successfully, the destination
\* holding exactly the N source bytes in order; until then every turn of
\* the loop that reads a chunk moves the read position forward.
C21_PlainTransferExact ==
    (~xfer.gz /\ xfer.header = <<Len(xfer.body)>>) =>
        /\ pc = "x_done" => xfer.result = "ok" /\ xfer.dest = xfer.body
        /\ pc \in {"x_read", "x_check"} =>
              /\ xfer.in_bytes = Len(xfer.dest)
              /\ xfer.dest = SubSeq(xfer.body, 1, xfer.in_bytes)

\* three bytes in chunks of two: a full chunk, then a short one
C21_Witness ==
    /\ pc = "x_done" /\ ~xfer.gz /\ xfer.result = "ok"
    /\ Len(xfer.body) = 3 /\ xfer.chunk_size = 2
    /\ xfer.header = <<3>>

\* C22: an uncompressed transfer whose source delivered a number of bytes
\* other than the declared length ends with DownloadMismatchError.
C22_MismatchRaisesIntegrityError ==
    (pc = "x_done" /\ ~xfer.gz /\ xfer.header # <<>>
     /\ xfer.header # <<Len(xfer.body)>>) =>
        xfer.result = "DownloadMismatchError"

\* C23: a gzip stream that ends before the end of its trailer is refused
\* with the decompression error, also when the bytes read equal the declared
\* length and the whole image has been written.
C23_TruncatedGzipRefused ==
    (pc = "x_done" /\ mode = "guest" /\ xfer.gz
     /\ "T2" \notin Range(xfer.body)) =>
        xfer.result = "DownloadDecompressError"

C23_Witness ==
    /\ pc = "x_done" /\ mode = "guest" /\ xfer.gz
    /\ "T1" \in Range(xfer.body) /\ "T2" \notin Range(xfer.body)
    /\ xfer.content_length = xfer.in_bytes
    /\ xfer.dest = xfer.image /\ xfer.image # <<>>
    /\ xfer.result = "DownloadDecompressError"

\* C24: a gzip transfer whose decompressor reached the end of the stream
\* completes successfully, whatever the declared length, also with none
\* declared.
C24_CleanGzipAccepted ==
    (pc = "x_done" /\ mode = "guest" /\ xfer.gz /\ xfer.eof) =>
        xfer.result = "ok"

-----------------------------------------------------------------------------
(* A network failure in the middle of a transfer *)

Transferring == pc \in {"stream", "g_stream"}

\* C25: stream_to_file never retries.  An iteration opens the destination
\* (and the connection before it) at most once; a read that fails in the
\* middle of the transfer ends the iteration with the error, writing and
\* logging nothing more and leaving the destination with the chunks written
\* so far; nothing but the end of the iteration follows; and a transfer is
\* only ever entered with nothing written, from the start of the image.
C25_NoRetry ==
    /\ [](Cardinality(CallsOf("device.open")) <= 1)
    /\ [][(Transferring /\ raisedIn' = "URLError") =>
             /\ pc' = "done" /\ outcome' = "error"
             /\ written' = written /\ blockDev' = blockDev
             /\ log' = log]_vars
    /\ [][(pc = "done" /\ raisedIn = "URLError") => pc' = "idle"]_vars
    /\ [][(~Transferring /\ Transferring') => written' = 0]_vars

\* the read failed after one of the chunks had been written
C25_Witness ==
    /\ pc = "done" /\ raisedIn = "URLError" /\ outcome = "error"
    /\ written = 1
    /\ Cardinality(CallsOf("device.write")) = 1

-----------------------------------------------------------------------------
(* common/utils.py mount_root_partition on its own, over every list of     *)
(* devices and partitions and every state of the mount point               *)

\* the most partitions the devices hold together
MaxParts == 3

\* faulty variant: one indicator path is enough
HasAnyIndicator(present) ==
    \E i \in {"var", "dev", "boot"} : i \in present

\* lines 164-168: no indicator path is missing under the mount point
HasAllIndicators(present) ==
    ~ \E i \in {"var", "dev", "boot"} : i \notin present

\* the partitions in the order the two loops visit them
RECURSIVE Parts(_)
Parts(devices) ==
    IF devices = <<>> THEN <<>> ELSE Head(devices) \o Parts(Tail(devices))

\* a partition is a root file system, a file system without /boot, or
\* cannot be mounted; the devices are none, one, or two with the
\* partitions split between them; the mount point is free or holds a file
\* system mounted before the call (id 0)
InitMount ==
    /\ mode = "guest"
    /\ pc = "m_start"
    /\ LET Kinds == {[mountable |-> TRUE, inds |-> {"var", "dev", "boot"}],
                     [mountable |-> TRUE, inds |-> {"var", "dev"}],
                     [mountable |-> FALSE, inds |-> {}]}
           Lists == UNION {[1..n -> Kinds] : n \in 0..MaxParts}
           Numbered(ks) ==
               [k \in 1..Len(ks) |->
                   [id |-> k, mountable |-> ks[k].mountable,
                    inds |-> ks[k].inds]]
           Split(ps) == {<<ps>>} \cup
               {<<SubSeq(ps, 1, k), SubSeq(ps, k + 1, Len(ps))>> :
                    k \in 0..Len(ps)}
           Before == {<<>>} \cup
               {<<[id |-> 0, mountable |-> TRUE, inds |-> i]>> :
                    i \in {{}, {"var", "dev", "boot"}}}
       IN \E ks \in Lists, before \in Before :
          \E devices \in Split(Numbered(ks)) \cup {<<>>} :
             mnt = [devices |-> devices, before |-> before, at |-> before,
                    count |-> 0, tried |-> <<>>, result |-> ""]
    /\ sysBlock = {} /\ xfer = NoCall /\ resp = NoCall
    /\ AtRest

\* lines 134-146: no devices, or something already mounted at mount_point
MountStart ==
    /\ pc = "m_start"
    /\ IF mnt.devices = <<>>
       THEN mnt' = [mnt EXCEPT !.result = "FileNotFoundError"]
       ELSE IF mnt.at # <<>>
       THEN mnt' = [mnt EXCEPT !.result = "ok"]
       ELSE mnt' = mnt
    /\ pc' = IF mnt'.result = "" THEN "m_loop" ELSE "m_done"
    /\ UNCHANGED <<mode, blockDev, log, restVars, sysBlock, xfer, resp>>

\* faulty variant: only the partitions that could be mounted are counted
TryPartitionCountMounted(x, part) ==
    LET y == [x EXCEPT !.tried = Append(@, part.id)] IN
    IF ~part.mountable THEN [y EXCEPT !.at = <<>>]
    ELSE IF ~HasAllIndicators(part.inds)
    THEN [y EXCEPT !.at = <<part>>, !.count = @ + 1]
    ELSE [y EXCEPT !.at = <<part>>, !.count = @ + 1, !.result = "ok"]

\* faulty variant: the loop goes on after the root partition was found
TryPartitionKeepGoing(x, part) ==
    LET y == [x EXCEPT !.count = @ + 1, !.tried = Append(@, part.id)] IN
    IF ~part.mountable THEN [y EXCEPT !.at = <<>>]
    ELSE [y EXCEPT !.at = <<part>>]

\* lines 151-176, one partition: counted, the mount point unmounted, the
\* partition mounted (or skipped when mount fails), the indicators looked
\* for; a partition without them stays mounted when the loop goes on
TryPartition(x, part) ==
    LET y == [x EXCEPT !.count = @ + 1, !.tried = Append(@, part.id)] IN
    IF ~part.mountable THEN [y EXCEPT !.at = <<>>]
    ELSE IF ~HasAllIndicators(part.inds) THEN [y EXCEPT !.at = <<part>>]
    ELSE [y EXCEPT !.at = <<part>>, !.result = "ok"]

MountTry ==
    /\ pc = "m_loop"
    /\ Len(mnt.tried) < Len(Parts(mnt.devices))
    /\ mnt' = TryPartition(mnt, Parts(mnt.devices)[Len(mnt.tried) + 1])
    /\ pc' = IF mnt'.result = "" THEN "m_loop" ELSE "m_done"
    /\ UNCHANGED <<mode, blockDev, log, restVars, sysBlock, xfer, resp>>

\* line 178: the loops are over
MountExhausted ==
    /\ pc = "m_loop"
    /\ Len(mnt.tried) = Len(Parts(mnt.devices))
    /\ mnt' = [mnt EXCEPT !.result = "SupportedFSNotFound"]
    /\ pc' = "m_done"
    /\ UNCHANGED <<mode, blockDev, log, restVars, sysBlock, xfer, resp>>

NextMount == MountStart \/ MountTry \/ MountExhausted

SpecMount == InitMount /\ [][NextMount]_vars

\* a file system that holds every indicator path
IsRoot(p) == p.mountable /\ {"var", "dev", "boot"} \subseteq p.inds

Returned_ok == pc = "m_done" /\ mnt.result = "ok"

\* C27 as stated: whenever mount_root_partition returns successfully, a
\* partition holding all the indicator paths is mounted at the mount point,
\* and not the file system that was mounted there before the call.
C27_MountedHasIndicators ==
    Returned_ok =>
        /\ mnt.at # <<>>
        /\ mnt.at[1].id # 0
        /\ IsRoot(mnt.at[1])

\* C27 amended: when nothing was mounted at the mount point at the call, a
\* successful return leaves a partition of the given devices mounted that
\* holds all the indicator paths; when something was mounted there, the
\* call returns at once, that file system left in place, no partition
\* tried and no indicator looked for.
C27_MountedHasIndicatorsAmended ==
    Returned_ok =>
        IF mnt.before = <<>>
        THEN /\ mnt.at # <<>>
             /\ mnt.at[1] \in Range(Parts(mnt.devices))
             /\ IsRoot(mnt.at[1])
        ELSE mnt.at = mnt.before /\ mnt.tried = <<>>

\* the root partition was found after one without /boot had been mounted
C27_Witness ==
    /\ Returned_ok /\ mnt.before = <<>>
    /\ mnt.count = 2
    /\ Parts(mnt.devices)[1].inds = {"var", "dev"}
    /\ mnt.at = <<Parts(mnt.devices)[2]>>

NoRootPartition ==
    \A i \in DOMAIN Parts(mnt.devices) :
        ~IsRoot(Parts(mnt.devices)[i])

TriedEvery ==
    /\ mnt.result = "SupportedFSNotFound"
    /\ mnt.tried = [k \in 1..Len(Parts(mnt.devices)) |-> k]
    /\ mnt.count = Len(Parts(mnt.devices))

\* C28 as stated: when no partition of any device has all the indicators,
\* the call fails with SupportedFSNotFound after trying every partition,
\* reporting their number.
C28_ExhaustedReportsCount ==
    (pc = "m_done" /\ NoRootPartition) => TriedEvery

\* C28 amended: the same, for a call with at least one device and nothing
\* mounted at the mount point; with no device the call fails with
\* FileNotFoundError, with something mounted it returns at once.
C28_ExhaustedReportsCountAmended ==
    (pc = "m_done" /\ NoRootPartition) =>
        IF mnt.devices = <<>> THEN mnt.result = "FileNotFoundError"
        ELSE IF mnt.before # <<>> THEN mnt.result = "ok" /\ mnt.tried = <<>>
        ELSE TriedEvery

\* three partitions on two devices, one of them not mountable
C28_Witness ==
    /\ pc = "m_done" /\ NoRootPartition /\ TriedEvery
    /\ mnt.count = 3 /\ Len(mnt.devices) = 2
    /\ \E i \in 1..3 : ~Parts(mnt.devices)[i].mountable

\* three partitions, only the second a root partition
SecondOfThree ==
    /\ Len(Parts(mnt.devices)) = 3
    /\ \A i \in 1..3 :
          IsRoot(Parts(mnt.devices)[i]) <=> i = 2

\* the attempts that did not end the call with a mounted root partition
FailedAttempts ==
    IF mnt.result = "ok" /\ mnt.tried # <<>> THEN Len(mnt.tried) - 1
    ELSE Len(mnt.tried)

\* C29 as stated: with three partitions of which only the second has all
\* the indicators, the call ends with the second mounted after exactly two
\* failed attempts, the third never tried.
C29_SecondOfThree ==
    (pc = "m_done" /\ SecondOfThree) =>
        /\ mnt.result = "ok"
        /\ mnt.at = <<Parts(mnt.devices)[2]>>
        /\ FailedAttempts = 2
        /\ 3 \notin Range(mnt.tried)

\* C29 amended: called with nothing mounted at the mount point, it ends
\* with the second mounted at the second attempt (count = 2), after exactly
\* one failed attempt, the third never tried; called with something
\* mounted there, it returns at once and tries no partition.
C29_SecondOfThreeAmended ==
    (pc = "m_done" /\ SecondOfThree) =>
        /\ mnt.result = "ok"
        /\ IF mnt.before = <<>>
           THEN /\ mnt.at = <<Parts(mnt.devices)[2]>>
                /\ mnt.count = 2 /\ mnt.tried = <<1, 2>>
                /\ FailedAttempts = 1
           ELSE mnt.at = mnt.before /\ mnt.tried = <<>>

C29_Witness ==
    /\ pc = "m_done" /\ SecondOfThree /\ mnt.before = <<>>
    /\ mnt.result = "ok" /\ mnt.count = 2
    /\ Len(mnt.devices) = 2

-----------------------------------------------------------------------------
(* common/http/base.py HttpResp.raise_for_status, over every status code *)

\* faulty variant: 409 is not told apart
RaiseForStatusNoConflict(code) ==
    IF code < 400 THEN "none"
    ELSE IF code = 404 THEN "HttpNotFoundError"
    ELSE "HttpError"

\* lines 69-78: what raise_for_status raises for a response code
RaiseForStatus(code) ==
    IF code < 400 THEN "none"
    ELSE IF code = 404 THEN "HttpNotFoundError"
    ELSE IF code = 409 THEN "HttpConflictError"
    ELSE "HttpError"

\* HttpResp.__init__: a response with any status code of HTTP
InitStatus ==
    /\ mode = "guest"
    /\ pc = "r_start"
    /\ \E code \in 100..599 : resp = [resp_code |-> code, raised |-> ""]
    /\ sysBlock = {} /\ xfer = NoCall /\ mnt = NoCall
    /\ AtRest

CheckStatus ==
    /\ pc = "r_start"
    /\ resp' = [resp EXCEPT !.raised = RaiseForStatus(resp.resp_code)]
    /\ pc' = "r_done"
    /\ UNCHANGED <<mode, blockDev, log, restVars, sysBlock, xfer, mnt>>

NextStatus == CheckStatus

SpecStatus == InitStatus /\ [][NextStatus]_vars

\* C30 as stated: 2xx raises nothing, 404 raises NotFound, 409 raises
\* Conflict, every other code that is not 2xx raises the generic HttpError.
C30_StatusMapping ==
    pc = "r_done" =>
        resp.raised =
            (IF resp.resp_code >= 200 /\ resp.resp_code < 300 THEN "none"
             ELSE IF resp.resp_code = 404 THEN "HttpNotFoundError"
             ELSE IF resp.resp_code = 409 THEN "HttpConflictError"
             ELSE "HttpError")

\* C30 amended: every code below 400 (1xx, 2xx, 3xx) raises nothing, 404
\* raises NotFound, 409 raises Conflict, every other code from 400 on
\* raises the generic HttpError.
C30_StatusMappingAmended ==
    pc = "r_done" =>
        /\ resp.resp_code < 400 => resp.raised = "none"
        /\ resp.resp_code = 404 => resp.raised = "HttpNotFoundError"
        /\ resp.resp_code = 409 => resp.raised = "HttpConflictError"
        /\ (resp.resp_code >= 400 /\ resp.resp_code \notin {404, 409}) =>
              resp.raised = "HttpError"

C30_Witness ==
    pc = "r_done" /\ resp.resp_code = 409 /\ resp.raised = "HttpConflictError"

-----------------------------------------------------------------------------
(* dm/models.py: dump_to_simple_view and restore_from_simple_view with the *)
(* types of the values.  A value is [t, v]: t its Python type; an object   *)
(* or a dict is [t, f] with f its fields or keys                           *)

\* dump_to_simple_view.  SimpleViewMixin: dataclasses.asdict, then every
\* UUID and IPv4Address at the top level becomes its str.  Payload: machine
\* and node, when not None, and every interface are replaced by their own
\* simple views.
RECURSIVE DumpView(_)
DumpView(o) ==
    [t |-> "dict",
     f |-> [k \in DOMAIN o.f |->
              LET x == o.f[k] IN
              IF o.t = "Payload" /\ k \in {"machine", "node"}
              THEN (IF x.t = "NoneType" THEN x ELSE DumpView(x))
              ELSE IF o.t = "Payload" /\ k = "interfaces"
              THEN [t |-> "list",
                    v |-> [i \in DOMAIN x.v |-> DumpView(x.v[i])]]
              ELSE IF x.t \in {"UUID", "IPv4Address"}
              THEN [t |-> "str", v |-> x.v]
              ELSE x]]

\* faulty variant: the fields are kept as the view gives them
PostInitNothing(cls, f) == f

\* __post_init__ of Machine, Node and Interface: a str in a uuid or address
\* field becomes a UUID or an IPv4Address
PostInit(cls, f) ==
    LET Typed == [Machine |-> [uuid |-> "UUID", project_id |-> "UUID",
                               pool |-> "UUID", node |-> "UUID",
                               firmware_uuid |-> "UUID"],
                  Node |-> [uuid |-> "UUID", project_id |-> "UUID"],
                  Interface |-> [ipv4 |-> "IPv4Address",
                                 mask |-> "IPv4Address"],
                  Payload |-> <<>>]
    IN [k \in DOMAIN f |->
          IF k \in DOMAIN Typed[cls] /\ f[k].t = "str"
          THEN [t |-> Typed[cls][k], v |-> f[k].v]
          ELSE f[k]]

\* restore_from_simple_view.  SimpleViewMixin: the keys that are no field
\* of the class are dropped; of the type patterns only types.UnionType
\* matches a field type, and restores a non-empty value of a field whose
\* union holds a SimpleViewMixin class (Payload.machine, Payload.node);
\* cls(**kwargs) runs __post_init__.  Payload: the interfaces are restored
\* one by one.
RECURSIVE RestoreView(_, _)
RestoreView(cls, view) ==
    LET Fields ==
            [Machine |-> {"uuid", "cores", "ram", "status", "machine_type",
                          "boot", "pool", "project_id", "node",
                          "firmware_uuid", "name", "description", "image"},
             Node |-> {"uuid", "cores", "ram", "status", "image",
                       "node_type", "project_id", "name", "description"},
             Interface |-> {"name", "mac", "ipv4", "mask", "mtu"},
             Payload |-> {"machine", "node", "interfaces", "payload_hash",
                          "payload_updated_at"}]
        Nested == [machine |-> "Machine", node |-> "Node"]
        kwargs ==
            [k \in DOMAIN view.f \cap Fields[cls] |->
               LET x == view.f[k] IN
               IF cls = "Payload" /\ k \in DOMAIN Nested /\ x.t = "dict"
               THEN RestoreView(Nested[k], x)
               ELSE IF cls = "Payload" /\ k = "interfaces"
               THEN [t |-> "list",
                     v |-> [i \in DOMAIN x.v |->
                              RestoreView("Interface", x.v[i])]]
               ELSE x]
    IN [t |-> cls, f |-> PostInit(cls, kwargs)]

\* Machines, Nodes, Interfaces and Payloads as the program holds them
ObjectPool ==
    LET Str(s) == [t |-> "str", v |-> s]
        Int(n) == [t |-> "int", v |-> n]
        Uuid(s) == [t |-> "UUID", v |-> s]
        Addr(s) == [t |-> "IPv4Address", v |-> s]
        None == [t |-> "NoneType", v |-> ""]
        Machines ==
            {[t |-> "Machine",
              f |-> [uuid |-> Uuid("m1"), cores |-> Int(2), ram |-> Int(4),
                     status |-> Str("IDLE"), machine_type |-> Str("HW"),
                     boot |-> Str("network"), pool |-> p,
                     project_id |-> Uuid("00"), node |-> n,
                     firmware_uuid |-> fw, name |-> Str(""),
                     description |-> Str(""), image |-> img]] :
                p \in {None, Uuid("p1")}, n \in {None, Uuid("n1")},
                fw \in {None, Uuid("m1")}, img \in {None, Str(IMG_NEW)}}
        Nodes ==
            {[t |-> "Node",
              f |-> [uuid |-> Uuid("n1"), cores |-> Int(1), ram |-> Int(1),
                     status |-> Str(st), image |-> Str(IMG_NEW),
                     node_type |-> Str("HW"), project_id |-> Uuid("00"),
                     name |-> Str("node"), description |-> Str("")]] :
                st \in {"NEW", "ACTIVE"}}
        Iface(i) ==
            [t |-> "Interface",
             f |-> [name |-> Str(i.name), mac |-> Str(i.mac),
                    ipv4 |-> Addr(i.ipv4), mask |-> Addr(i.mask),
                    mtu |-> Int(i.mtu)]]
        Payloads ==
            {[t |-> "Payload",
              f |-> [machine |-> m, node |-> n,
                     interfaces |->
                         [t |-> "list",
                          v |-> [i \in DOMAIN ifs |-> Iface(ifs[i])]],
                     payload_hash |-> Str(h),
                     payload_updated_at |-> Str("1970-01-01 00:01:00")]] :
                m \in Machines \cup {None}, n \in Nodes \cup {None},
                ifs \in IfacePool, h \in {"", "h1"}}
    IN Machines \cup Nodes \cup {Iface(IfA), Iface(IfB)} \cup Payloads

InitRoundTrip ==
    /\ mode = "agent"
    /\ pc = "rt_dump"
    /\ dp \in ObjectPool
    /\ cp = NoPayload
    /\ views = <<>>
    /\ file = AbsentFile /\ marker = FALSE /\ target = BaseTarget
    /\ hostIfaces = <<IfA, IfB>> /\ todo = {} /\ after = ""
    /\ blockDev = NoDevice /\ written = 0 /\ log = <<>>
    /\ outcome = "none" /\ raisedIn = ""
    /\ file0 = file /\ marker0 = FALSE /\ prevConv = FALSE
    /\ gmachine = NoMachine /\ guest = NoGuest
    /\ sysBlock = {} /\ xfer = NoCall /\ mnt = NoCall /\ resp = NoCall

\* view = x.dump_to_simple_view()
DumpObject ==
    /\ pc = "rt_dump"
    /\ views' = <<DumpView(dp)>>
    /\ pc' = "rt_restore"
    /\ UNCHANGED <<mode, file, marker, target, hostIfaces, dp, cp, todo,
                   after, blockDev, written, log, outcome, raisedIn,
                   histVars, gmachine, guest, sysBlock, xfer, mnt, resp>>

\* type(x).restore_from_simple_view(**view)
RestoreObject ==
    /\ pc = "rt_restore"
    /\ cp' = RestoreView(dp.t, views[1])
    /\ pc' = "rt_done"
    /\ UNCHANGED <<mode, file, marker, target, hostIfaces, dp, views, todo,
                   after, blockDev, written, log, outcome, raisedIn,
                   histVars, gmachine, guest, sysBlock, xfer, mnt, resp>>

NextRoundTrip == DumpObject \/ RestoreObject

SpecRoundTrip == InitRoundTrip /\ [][NextRoundTrip]_vars

\* the types of the values in a simple view: none is a UUID, an address or
\* an object
RECURSIVE PlainView(_)
PlainView(x) ==
    CASE x.t = "dict" -> \A k \in DOMAIN x.f : PlainView(x.f[k])
      [] x.t = "list" -> \A i \in DOMAIN x.v : PlainView(x.v[i])
      [] OTHER -> x.t \in {"str", "int", "NoneType"}

\* C31: for every Machine, Node, Interface and Payload x, the simple view
\* of x holds only dicts, lists, strings, numbers and None, and restoring
\* it yields an object of the type of x with the same field values: uuid
\* fields are UUIDs again, the nested machine and node a Machine and a
\* Node.
C31_RoundTrip ==
    /\ pc \in {"rt_restore", "rt_done"} => PlainView(views[1])
    /\ pc = "rt_done" => cp = dp

\* a payload with a machine, a node and interfaces went round
C31_Witness ==
    /\ pc = "rt_done" /\ dp.t = "Payload" /\ cp = dp
    /\ cp.f.machine.t = "Machine" /\ cp.f.machine.f.uuid.t = "UUID"
    /\ cp.f.node.t = "Node" /\ cp.f.node.f.uuid.t = "UUID"
    /\ Len(cp.f.interfaces.v) = 2
    /\ views[1].f.machine.f.uuid.t = "str"

-----------------------------------------------------------------------------
(* The order of the convergence steps *)

\* the place in the log where fn returned (0: it has not)
RetPos(fn) ==
    IF \E i \in Pos : log[i].op = "return" /\ log[i].arg = fn
    THEN CHOOSE i \in Pos : log[i].op = "return" /\ log[i].arg = fn
    ELSE 0

\* what _actualize_node does: the disks looked up, the device written, a
\* status, boot or image sent, the node updated, the reboot
NodeStepAt(i) ==
    \/ log[i].op \in DeviceOps \cup {"get_disks", "nodes.update", "reboot",
                                     "marker.write"}
    \/ /\ log[i].op = "machines.update"
       /\ {"status", "boot"} \cap DOMAIN log[i].arg # {}

SaveAt(i) == log[i].op \in {"file.open", "file.write"}
                 /\ log[i].arg = "save_payload"

\* C32: in an iteration of the agent the convergence steps run in the order
\* actualize-machine, actualize-node, actualize-agent, persist: nothing of
\* the flash or of clear-machine happens before _actualize_machine has
\* returned; the steps return in this order; payload_updated_at of the
\* data-plane payload changes only after _actualize_node has returned; and
\* save_payload comes after _actualize_agent, nothing following its write.
C32_ConvergenceOrder ==
    /\ [](mode = "agent" =>
           /\ \A i \in Pos :
                /\ NodeStepAt(i) =>
                       RetPos("_actualize_machine") \in 1..(i - 1)
                /\ SaveAt(i) => RetPos("_actualize_agent") \in 1..(i - 1)
                /\ (log[i].op = "file.write" /\ log[i].arg = "save_payload")
                       => i = Len(log)
           /\ RetPos("_actualize_agent") # 0 =>
                  RetPos("_actualize_node") \in
                      1..(RetPos("_actualize_agent") - 1)
           /\ RetPos("_actualize_node") # 0 =>
                  RetPos("_actualize_machine") \in
                      1..(RetPos("_actualize_node") - 1))
    /\ [][(/\ dp # NoPayload /\ dp' # NoPayload
           /\ dp'.payload_updated_at # dp.payload_updated_at)
          => RetPos("_actualize_node") # 0]_vars

\* a placement that flashed, then advanced the timestamp, then persisted
C32_Witness ==
    /\ mode = "agent" /\ pc = "done" /\ outcome = "converged"
    /\ Has(log, "device.write") /\ Has(log, "reboot")
    /\ dp.payload_updated_at = target.payload_updated_at
    /\ dp.payload_updated_at # EmptyPayload(<<>>).payload_updated_at
    /\ file.kind = "full" /\ file.data = DumpPayload(dp)

-----------------------------------------------------------------------------
(* The progress callback of stream_to_file *)

\* the bytes the source has delivered once k chunks have been read
ReadAfter(k) == Min(k * xfer.chunk_size, Len(xfer.body))

\* what the destination holds once the first n bytes have been handled
OutputOf(n) ==
    IF xfer.gz THEN Decompress(SubSeq(xfer.body, 1, n))
    ELSE SubSeq(xfer.body, 1, n)

\* C33: base.stream_to_file calls the progress callback exactly once after
\* every non-empty chunk read and never for the empty one; at the call the
\* output of that chunk is in the destination; read and written are the
\* cumulative counts, they never decrease from a call to the next, read
\* never exceeds the bytes the source delivered, and written equals read
\* when the transfer is not compressed.  Without a callback nothing is
\* called.
C33_ProgressCallback ==
    (mode = "guest" /\ pc \in {"x_read", "x_check", "x_done"}) =>
        /\ ~xfer.handler => xfer.calls = <<>>
        /\ xfer.handler =>
              /\ Len(xfer.calls) =
                    (xfer.read + xfer.chunk_size - 1) \div xfer.chunk_size
              /\ \A k \in DOMAIN xfer.calls :
                    LET call == xfer.calls[k] IN
                    /\ call.chunk # <<>>
                    /\ call.chunk = SubSeq(xfer.body, ReadAfter(k - 1) + 1,
                                           ReadAfter(k))
                    /\ call.read = ReadAfter(k)
                    /\ call.read <= Len(xfer.body)
                    /\ call.dest = OutputOf(call.read)
                    /\ call.written = Len(call.dest)
                    /\ ~xfer.gz => call.written = call.read
                    /\ k > 1 =>
                          /\ xfer.calls[k - 1].read <= call.read
                          /\ xfer.calls[k - 1].written <= call.written

\* a compressed image of three bytes read in two chunks: the written count
\* passes the read count
C33_Witness ==
    /\ mode = "guest" /\ pc = "x_done" /\ xfer.gz /\ xfer.handler
    /\ Len(xfer.calls) >= 2
    /\ \E k \in DOMAIN xfer.calls :
          xfer.calls[k].written # xfer.calls[k].read
    /\ xfer.result = "ok"

-----------------------------------------------------------------------------
(* What mount_root_partition leaves at the mount point *)

\* the partitions of the devices that were mounted and found without an
\* indicator path
Rejected ==
    {p \in {Parts(mnt.devices)[k] : k \in DOMAIN mnt.tried} :
        p.mountable /\ ~IsRoot(p)}

\* C34: a partition that mount_root_partition mounted and rejected is
\* unmounted before the call fails (before the next one is mounted it is,
\* by the unmount that opens every turn of the loop): when the call has
\* failed with SupportedFSNotFound, nothing is at the mount point.
C34_RejectedUnmounted ==
    (mode = "guest" /\ pc = "m_done" /\ mnt.result = "SupportedFSNotFound")
        => mnt.at = <<>>

\* the failing call: the last partition it tried is still mounted
C34_LeftMounted ==
    /\ mode = "guest" /\ pc = "m_done"
    /\ mnt.result = "SupportedFSNotFound"
    /\ mnt.before = <<>>
    /\ mnt.at # <<>> /\ mnt.at[1] \in Rejected

-----------------------------------------------------------------------------
(* The branch _actualize_node takes *)

\* the step is one of _actualize_node, not one of the environment
NodeStepTaken == pc' \notin {"actualize_node", "idle"}

\* the step made from the head of _actualize_node enters _place_node: the
\* image is refused or the disks are looked up
PlaceNodeEntered ==
    \/ raisedIn' = "ValueError"
    \/ /\ Len(log') > Len(log)
       /\ log'[Len(log) + 1].op = "get_disks"

\* the step makes the machines.update of _clear_machine
ClearMachineEntered ==
    /\ Len(log') > Len(log)
    /\ log'[Len(log) + 1].op = "machines.update"

\* C35: _actualize_node places the node exactly when the target has a node
\* and the data plane has none, clears the machine only when the data plane
\* has a node and the target has none, never does both, and issues no
\* machine update when neither payload has a node.  (The stub
\* _actualize_image, taken when both have a node and the images differ, has
\* no effect to observe.)
C35_BranchSelection ==
    [][(mode = "agent" /\ pc = "actualize_node" /\ NodeStepTaken) =>
          /\ PlaceNodeEntered <=> (dp.node = NoNode /\ cp.node # NoNode)
          /\ ClearMachineEntered => (dp.node # NoNode /\ cp.node = NoNode)
          /\ ~(PlaceNodeEntered /\ ClearMachineEntered)
          /\ (dp.node = NoNode /\ cp.node = NoNode) =>
                \A i \in (Len(log) + 1)..Len(log') :
                    log'[i].op # "machines.update"]_vars

-----------------------------------------------------------------------------
(* The fields the payload hash depends on *)

\* the fields named as hashed: the image of the machine, cores, ram, type
\* and image of the node, mac, address and mask of every interface
ManagedFields(p) ==
    <<IF p.machine = NoMachine THEN <<>> ELSE <<p.machine.image>>,
      IF p.node = NoNode THEN <<>>
      ELSE <<p.node.cores, p.node.ram, p.node.node_type, p.node.image>>,
      HashedIfaces(p.interfaces)>>

\* C36: the computed hash depends on the managed fields only: two payloads
\* that agree on them have the same computed hash, whatever the status and
\* description of machine and node, the name and mtu of the interfaces and
\* payload_updated_at hold.
C36_HashOfManagedFields ==
    (mode = "agent" /\ pc = "hashed"
        /\ ManagedFields(dp) = ManagedFields(cp))
        => dp.payload_hash = cp.payload_hash

\* payloads that differ only in the status or the description of the node
\* have been hashed differently
C36_NodeStatusHashed ==
    /\ mode = "agent" /\ pc = "hashed"
    /\ dp.node # NoNode /\ cp.node # NoNode
    /\ dp.node # cp.node
    /\ ManagedFields(dp) = ManagedFields(cp)
    /\ dp.payload_hash # cp.payload_hash

-----------------------------------------------------------------------------
(* The payload persisted after _clear_machine *)

\* the iteration made the update of _clear_machine and ended without error
ClearedAndSaved ==
    /\ mode = "agent" /\ pc = "done" /\ outcome = "converged"
    /\ \E i \in Pos : log[i] = IdleWrite

C37_NodeKept ==
    /\ ClearedAndSaved
    /\ cp.node = NoNode
    /\ file.kind = "full"
    /\ file.data.node # NoNode
    /\ file.data.machine.image # NoImage
    /\ file.data.machine.status = "IDLE"

-----------------------------------------------------------------------------
(* The guest driver on a machine that has to boot from disk *)

\* what a flashing run does: status updates, the transfer, the marker
FlashingOps ==
    DeviceOps \cup {"resources.update", "mount_root_partition",
                    "private_keys.refresh", "key.write", "marker.write",
                    "shutdown"}

\* C38: a run of the guest driver that finds a boot alternative starting
\* with "hd" starts the reboot and does nothing else: no status update, no
\* transfer, no write to the block device, and the marker is not created.
C38_HdBootOnlyReboots ==
    (mode = "guest" /\ gmachine # NoMachine /\ pc # "idle"
        /\ Has(log, "reboot")) =>
        /\ \A i \in Pos : log[i].op = "reboot" =>
              \A j \in Pos : j > i => log[j].op \notin FlashingOps
        /\ marker = marker0

\* a machine that boots from disk was flashed, marked and shut down after
\* the reboot had been started
C38_FlashedAfterReboot ==
    /\ mode = "guest" /\ pc = "done" /\ outcome = "converged"
    /\ StartsWith(gmachine.boot, "hd")
    /\ Has(log, "reboot") /\ Has(log, "device.write")
    /\ marker

-----------------------------------------------------------------------------
(* The status updates of the guest driver *)

\* the status updates of the run, whether they succeeded or not
GuestUpdates == CallsOf("resources.update")

\* the update at position i succeeded and set the status st
GuestStatusAt(i, st) == IsStatus(log[i], "resources.update", st)

\* mount_root_partition found no root partition in this run
NoRootMounted ==
    \E i \in Pos : log[i] = Call("mount_root_partition",
                                 "SupportedFSNotFound", FALSE)

\* C39: in a run of the guest driver the status updates are IN_PROGRESS
\* first and FLASHED second and no more; the device is opened and written
\* only after IN_PROGRESS succeeded; FLASHED is sent only after the whole
\* image was written and the disk flushed; a run that found no root
\* partition skips the private key and goes on to FLASHED; the marker and
\* the shutdown come only after FLASHED succeeded.
C39_GuestStatusProtocol ==
    mode = "guest" =>
        /\ Cardinality(GuestUpdates) <= 2
        /\ \A i \in GuestUpdates :
              log[i].arg.status =
                  IF \E j \in GuestUpdates : j < i
                  THEN "FLASHED" ELSE "IN_PROGRESS"
        /\ \A w \in DeviceWrites \cup CallsOf("device.open") :
              \E i \in GuestUpdates : i < w /\ GuestStatusAt(i, "IN_PROGRESS")
        /\ \A i \in GuestUpdates : log[i].arg.status = "FLASHED" =>
              /\ TransferDoneBefore(i)
              /\ \E f \in CallsOf("flush_disk") :
                    f < i /\ \A w \in DeviceWrites : w < f
              /\ \E j \in GuestUpdates :
                    j < i /\ GuestStatusAt(j, "IN_PROGRESS")
        /\ NoRootMounted =>
              /\ ~Has(log, "private_keys.refresh") /\ ~Has(log, "key.write")
              /\ pc \in {"g_flashed", "g_mark"}
                 \/ \E i \in GuestUpdates : log[i].arg.status = "FLASHED"
        /\ \A k \in CallsOf("marker.write") \cup CallsOf("shutdown") :
              \E i \in GuestUpdates : i < k /\ GuestStatusAt(i, "FLASHED")

\* C39 witness: a run that found no root partition was set FLASHED, marked
\* and shut down
C39_Witness ==
    /\ mode = "guest" /\ pc = "done" /\ outcome = "converged"
    /\ NoRootMounted
    /\ Cardinality(GuestUpdates) = 2
    /\ Has(log, "shutdown")
    /\ marker /\ ~marker0

====
